---------------------------- MODULE Spec2Model ----------------------------
(***************************************************************************)
(* Administrative console of the report bot (src/admin.py, src/bot.py):   *)
(* the role registry (ADDITIONAL_ADMINS, APPROVERS), the per-operator FSM  *)
(* context (state and data) that the aiogram handlers read and write, the  *)
(* multi-step flows of admin.py and the broadcast send loop.               *)
(*                                                                         *)
(* A text is a sequence of one-character strings, so that strip(), int()   *)
(* and len() are computed as Python computes them.  An optional value is   *)
(* None (the empty tuple) or Some(v) (the one-tuple of v).                 *)
(*                                                                         *)
(* A handler whose reads and writes of the shared state are not separated  *)
(* by an await on an external collaborator is one action.  A handler that  *)
(* awaits the database or the Telegram API between two accesses is a task  *)
(* (variable tasks) that other handlers interleave with: the Dispatcher of *)
(* bot.py is built with no event isolation and polls with one asyncio task *)
(* per update.                                                             *)
(***************************************************************************)
EXTENDS Integers, Sequences, FiniteSets, TLC

\* ------------------------------------------------------------------ bounds
\* Identities are 1..MaxId.
MaxId == 3
\* Handler invocations suspended at an await at the same time.
MaxTasks == 2
\* Registered users (broadcast recipients) in the database.
MaxUsers == 1
\* Spreadsheet targets in the database.
MaxSheets == 1
\* Recipients of a broadcast in the send-loop specification.
MaxRecipients == 11

\* ------------------------------------------------------- program constants
\* config.ADMIN_ID and config.HELPER_ID, imported at src/admin.py:14; HELPER_ID
\* is the primary approver of the deployments that configure one.
ADMIN_ID == 1
HELPER_ID == 3

Ids == 1..MaxId
\* The identities that send events: the primary administrator and one other.
Operators == ADMIN_ID .. ADMIN_ID + 1
TaskIds == 1..MaxTasks

None == << >>
Some(v) == << v >>

\* ------------------------------------------------------------------- texts
Digits == <<"0", "1", "2", "3", "4", "5", "6", "7", "8", "9">>
DigitChars == {Digits[i] : i \in 1..10}
DigitVal(c) == (CHOOSE i \in 1..10 : Digits[i] = c) - 1
Txt(i) == << Digits[i + 1] >>
\* str(n) of a natural number
RECURSIVE Str(_)
Str(n) == IF n < 10 THEN Txt(n) ELSE Str(n \div 10) \o Txt(n % 10)

RECURSIVE lstrip(_)
lstrip(s) == IF s # << >> /\ Head(s) = " " THEN lstrip(Tail(s)) ELSE s
RECURSIVE rstrip(_)
rstrip(s) == IF s # << >> /\ s[Len(s)] = " " THEN rstrip(SubSeq(s, 1, Len(s) - 1)) ELSE s
\* str.strip()
strip(s) == rstrip(lstrip(s))

AllDigits(s) == \A i \in 1..Len(s) : s[i] \in DigitChars
RECURSIVE DigitsValue(_)
DigitsValue(s) == IF s = << >> THEN 0
                  ELSE 10 * DigitsValue(SubSeq(s, 1, Len(s) - 1)) + DigitVal(s[Len(s)])
\* int(text) does not raise ValueError: surrounding blanks, an optional sign, digits.
IsInt(s) ==
    LET t == strip(s)
        d == IF t # << >> /\ Head(t) \in {"-", "+"} THEN Tail(t) ELSE t
    IN  d # << >> /\ AllDigits(d)
\* int(text)
IntOf(s) ==
    LET t == strip(s)
    IN  IF Head(t) = "-" THEN 0 - DigitsValue(Tail(t))
        ELSE IF Head(t) = "+" THEN DigitsValue(Tail(t))
        ELSE DigitsValue(t)

VARIABLES
    helper_id,          \* config.HELPER_ID as loaded (admin.py:14): 0 when none is set
    ADDITIONAL_ADMINS,  \* admin.py:79
    APPROVERS,          \* admin.py:80
    fsm_state,          \* FSMContext state of each operator ("None" when unset)
    fsm_data,           \* FSMContext data of each operator
    sheets, groups, password, users,   \* the database collaborator
    full_names,         \* the full_name column of the users table, by telegram id
    tasks,              \* handler invocations suspended at an await
    reply               \* the last answer a handler gave, and to whom

vars == << helper_id, ADDITIONAL_ADMINS, APPROVERS, fsm_state, fsm_data,
           sheets, groups, password, users, full_names, tasks, reply >>
roleVars == << helper_id, ADDITIONAL_ADMINS, APPROVERS >>
dbVars == << sheets, groups, password, users, full_names >>

\* ----------------------------------------------------------- role registry
is_admin(user_id) == user_id = ADMIN_ID \/ user_id \in ADDITIONAL_ADMINS

\* Faulty variant: administrators are not taken as approvers.
is_approver_without_admins(user_id) == user_id = helper_id \/ user_id \in APPROVERS

is_approver(user_id) ==
    user_id = helper_id \/ user_id \in APPROVERS \/ is_admin(user_id)

\* Faulty variant of add_admin: the identity is added without the test of line 96.
add_admin_unguarded(user_id) == ADDITIONAL_ADMINS \cup {user_id}

\* add_admin: the value returned, and ADDITIONAL_ADMINS after the call.
add_admin_ok(user_id) == user_id \notin ADDITIONAL_ADMINS /\ user_id # ADMIN_ID
add_admin(user_id) ==
    IF add_admin_ok(user_id) THEN ADDITIONAL_ADMINS \cup {user_id} ELSE ADDITIONAL_ADMINS

remove_admin_ok(user_id) == user_id \in ADDITIONAL_ADMINS
\* Faulty variant of remove_admin: a successful call drops every additional
\* administrator.
remove_admin_clearing(user_id) ==
    IF remove_admin_ok(user_id) THEN {} ELSE ADDITIONAL_ADMINS

remove_admin(user_id) ==
    IF remove_admin_ok(user_id) THEN ADDITIONAL_ADMINS \ {user_id} ELSE ADDITIONAL_ADMINS

\* Faulty variant of the test of add_approver: administrators are not excluded.
add_approver_ok_ignoring_admins(user_id) ==
    user_id \notin APPROVERS /\ user_id # helper_id

add_approver_ok(user_id) ==
    user_id \notin APPROVERS /\ user_id # helper_id /\ ~is_admin(user_id)
add_approver(user_id) ==
    IF add_approver_ok(user_id) THEN APPROVERS \cup {user_id} ELSE APPROVERS

remove_approver_ok(user_id) == user_id \in APPROVERS

\* list(S): the members of a set, each once; the order Python gives is not
\* specified, the model lists them in ascending order.
RECURSIVE list(_)
list(S) ==
    IF S = {} THEN << >>
    ELSE LET least == CHOOSE x \in S : \A y \in S : x <= y
         IN  << least >> \o list(S \ {least})

\* Faulty variant of get_all_approvers: the primary approver is left out.
get_all_approvers_without_helper == list(APPROVERS)

get_all_approvers ==
    (IF helper_id # 0 THEN << helper_id >> ELSE << >>) \o list(APPROVERS)
\* Faulty variant of remove_approver: nothing is removed.
remove_approver_keeping(user_id) == APPROVERS

remove_approver(user_id) ==
    IF remove_approver_ok(user_id) THEN APPROVERS \ {user_id} ELSE APPROVERS

\* ------------------------------------------------------------- FSM context
\* AdminStates (admin.py:45-76); "None" is the unset state.
AdminStates == {
    "waiting_for_group_link", "waiting_for_group_name",
    "waiting_for_group_sheet_selection", "waiting_for_group_id_to_delete",
    "waiting_for_sheet_name", "waiting_for_google_sheet_url",
    "waiting_for_google_sheet_worksheet_name",
    "waiting_for_new_password", "waiting_for_password_confirmation",
    "waiting_for_new_admin_id", "waiting_for_admin_name",
    "waiting_for_admin_delete_confirmation",
    "waiting_for_new_approver_id", "waiting_for_approver_name",
    "waiting_for_approver_delete_confirmation", "waiting_for_user_search",
    "waiting_for_broadcast_message", "waiting_for_broadcast_confirmation" }

\* The keys the handlers of admin.py store with state.update_data.
EmptyData == [ new_approver_id |-> None, new_admin_id |-> None,
               temp_group_id |-> None, temp_topic_id |-> None,
               temp_group_name |-> None,
               temp_sheet_name |-> None, temp_spreadsheet_id |-> None,
               new_password |-> None, broadcast_message |-> None,
               full_name |-> None ]

\* state.set_state(s): the data is kept.
set_state(op, s) == [fsm_state EXCEPT ![op] = s]
\* state.clear(): the state and the data are both dropped.
clear_state(op) == [fsm_state EXCEPT ![op] = "None"]
clear_data(op) == [fsm_data EXCEPT ![op] = EmptyData]

\* An answer: to whom, from which handler, what it says.
Answer(op, h, kind) == [op |-> op, h |-> h, kind |-> kind, detail |-> None]

\* A handler's early return after an answer: nothing but the answer changes.
Reprompt(op, h, kind) ==
    /\ reply' = Answer(op, h, kind)
    /\ UNCHANGED << roleVars, fsm_state, fsm_data, dbVars, tasks >>

\* Faulty variant of the guard: the denial leaves the session as it is.
DenyAndKeep(op, h) ==
    /\ reply' = Answer(op, h, "deny")
    /\ UNCHANGED << roleVars, fsm_state, fsm_data, dbVars, tasks >>

\* The guard of the message handlers of a flow: not is_admin -> answer, clear, return.
DenyAndClear(op, h) ==
    /\ reply' = Answer(op, h, "deny")
    /\ fsm_state' = clear_state(op)
    /\ fsm_data' = clear_data(op)
    /\ UNCHANGED << roleVars, dbVars, tasks >>


\* ------------------------------------------- calls of the registry functions
\* A call of one of the four module-level functions with any identity, as another
\* module or a handler makes it; the answer records the function, the argument
\* and the value returned.
Returned(fn, user_id, result) ==
    [op |-> 0, h |-> fn, kind |-> "returned", detail |-> Some([user_id |-> user_id, result |-> result])]

call_add_admin(user_id) ==
    /\ reply' = Returned("add_admin", user_id, add_admin_ok(user_id))
    /\ ADDITIONAL_ADMINS' = add_admin(user_id)
    /\ UNCHANGED << helper_id, APPROVERS, fsm_state, fsm_data, dbVars, tasks >>

call_remove_admin(user_id) ==
    /\ reply' = Returned("remove_admin", user_id, remove_admin_ok(user_id))
    /\ ADDITIONAL_ADMINS' = remove_admin(user_id)
    /\ UNCHANGED << helper_id, APPROVERS, fsm_state, fsm_data, dbVars, tasks >>

call_add_approver(user_id) ==
    /\ reply' = Returned("add_approver", user_id, add_approver_ok(user_id))
    /\ APPROVERS' = add_approver(user_id)
    /\ UNCHANGED << helper_id, ADDITIONAL_ADMINS, fsm_state, fsm_data, dbVars, tasks >>

call_remove_approver(user_id) ==
    /\ reply' = Returned("remove_approver", user_id, remove_approver_ok(user_id))
    /\ APPROVERS' = remove_approver(user_id)
    /\ UNCHANGED << helper_id, ADDITIONAL_ADMINS, fsm_state, fsm_data, dbVars, tasks >>

\* ------------------------------------------------------------------ inputs
\* What an operator types at a numeric-id step: each identity, and a word.
IdInputs == {Txt(i) : i \in Ids} \cup { <<"x">> }
\* What an operator types at a name step: one, two and three characters.
NameInputs == { <<"A">>, <<"A", "b">>, <<"A", "b", "c">> }

\* ------------------------------------------------------- panel and cancel
\* /rava
handle_admin_command(op) ==
    IF ~is_admin(op)
    THEN Reprompt(op, "handle_admin_command", "deny")
    ELSE /\ fsm_state' = clear_state(op)
         /\ fsm_data' = clear_data(op)
         /\ reply' = Answer(op, "handle_admin_command", "menu")
         /\ UNCHANGED << roleVars, dbVars, tasks >>

\* callback "cancel_admin_action": no role check, state.clear()
\* Faulty variant: the step is dropped and the fields are kept.
cancel_keeping_fields(op) ==
    /\ fsm_state' = clear_state(op)
    /\ reply' = Answer(op, "cancel_admin_action_handler", "cancelled")
    /\ UNCHANGED << roleVars, fsm_data, dbVars, tasks >>

\* Faulty variant: updates are handled one after the other, so the handler
\* waits until no other handler is suspended.
cancel_admin_action_handler_serialised(op) ==
    /\ \A t \in TaskIds : tasks[t].pc = "idle"
    /\ fsm_state' = clear_state(op)
    /\ fsm_data' = clear_data(op)
    /\ reply' = Answer(op, "cancel_admin_action_handler", "cancelled")
    /\ UNCHANGED << roleVars, dbVars, tasks >>

cancel_admin_action_handler(op) ==
    /\ fsm_state' = clear_state(op)
    /\ fsm_data' = clear_data(op)
    /\ reply' = Answer(op, "cancel_admin_action_handler", "cancelled")
    /\ UNCHANGED << roleVars, dbVars, tasks >>

\* ------------------------------------------------ administrators (primary)
add_admin_start_any_admin(op) ==
    IF ~is_admin(op)
    THEN Reprompt(op, "add_admin_start", "deny")
    ELSE /\ fsm_state' = set_state(op, "waiting_for_new_admin_id")
         /\ reply' = Answer(op, "add_admin_start", "prompt")
         /\ UNCHANGED << roleVars, fsm_data, dbVars, tasks >>

\* callback "admin_add"
add_admin_start(op) ==
    IF op # ADMIN_ID
    THEN Reprompt(op, "add_admin_start", "deny")
    ELSE /\ fsm_state' = set_state(op, "waiting_for_new_admin_id")
         /\ reply' = Answer(op, "add_admin_start", "prompt")
         /\ UNCHANGED << roleVars, fsm_data, dbVars, tasks >>

process_new_admin_id(op, text) ==
    /\ fsm_state[op] = "waiting_for_new_admin_id"
    /\ IF op # ADMIN_ID THEN DenyAndClear(op, "process_new_admin_id")
       ELSE IF ~IsInt(text) THEN Reprompt(op, "process_new_admin_id", "reject")
       ELSE IF IntOf(text) = ADMIN_ID THEN Reprompt(op, "process_new_admin_id", "reject")
       ELSE IF IntOf(text) \in ADDITIONAL_ADMINS
            THEN Reprompt(op, "process_new_admin_id", "reject")
       ELSE /\ fsm_data' = [fsm_data EXCEPT ![op].new_admin_id = Some(IntOf(text))]
            /\ fsm_state' = set_state(op, "waiting_for_admin_name")
            /\ reply' = Answer(op, "process_new_admin_id", "prompt")
            /\ UNCHANGED << roleVars, dbVars, tasks >>

process_admin_name(op, text) ==
    /\ fsm_state[op] = "waiting_for_admin_name"
    /\ IF op # ADMIN_ID THEN DenyAndClear(op, "process_admin_name")
       ELSE IF strip(text) = << >> \/ Len(strip(text)) < 2
            THEN Reprompt(op, "process_admin_name", "reject")
       ELSE LET new_admin_id == fsm_data[op].new_admin_id[1]
            IN  /\ reply' = Answer(op, "process_admin_name", IF add_admin_ok(new_admin_id) THEN "done" ELSE "failed")
                /\ ADDITIONAL_ADMINS' = add_admin(new_admin_id)
                /\ fsm_state' = clear_state(op)
                /\ fsm_data' = clear_data(op)
                /\ UNCHANGED << helper_id, APPROVERS, dbVars, tasks >>

\* callback "admin_remove"
remove_admin_start(op) ==
    IF op # ADMIN_ID THEN Reprompt(op, "remove_admin_start", "deny")
    ELSE IF ADDITIONAL_ADMINS = {} THEN Reprompt(op, "remove_admin_start", "empty")
    ELSE /\ fsm_state' = set_state(op, "waiting_for_admin_delete_confirmation")
         /\ reply' = Answer(op, "remove_admin_start", "prompt")
         /\ UNCHANGED << roleVars, fsm_data, dbVars, tasks >>

process_admin_delete(op, text) ==
    /\ fsm_state[op] = "waiting_for_admin_delete_confirmation"
    /\ IF op # ADMIN_ID THEN DenyAndClear(op, "process_admin_delete")
       ELSE IF ~IsInt(text) THEN Reprompt(op, "process_admin_delete", "reject")
       ELSE IF IntOf(text) = ADMIN_ID THEN Reprompt(op, "process_admin_delete", "reject")
       ELSE IF IntOf(text) \notin ADDITIONAL_ADMINS
            THEN Reprompt(op, "process_admin_delete", "reject")
       ELSE /\ reply' = Answer(op, "process_admin_delete", IF remove_admin_ok(IntOf(text)) THEN "done" ELSE "failed")
            /\ ADDITIONAL_ADMINS' = remove_admin(IntOf(text))
            /\ fsm_state' = clear_state(op)
            /\ fsm_data' = clear_data(op)
            /\ UNCHANGED << helper_id, APPROVERS, dbVars, tasks >>

\* ----------------------------------------------------------------- approvers
\* callback "approver_add"
add_approver_start(op) ==
    IF ~is_admin(op)
    THEN Reprompt(op, "add_approver_start", "deny")
    ELSE /\ fsm_state' = set_state(op, "waiting_for_new_approver_id")
         /\ reply' = Answer(op, "add_approver_start", "prompt")
         /\ UNCHANGED << roleVars, fsm_data, dbVars, tasks >>

\* Faulty variant of the id step: an administrator's id is not refused.
process_new_approver_id_admitting_admins(op, text) ==
    /\ fsm_state[op] = "waiting_for_new_approver_id"
    /\ IF ~is_admin(op) THEN DenyAndClear(op, "process_new_approver_id")
       ELSE IF ~IsInt(text) THEN Reprompt(op, "process_new_approver_id", "reject")
       ELSE IF IntOf(text) = helper_id THEN Reprompt(op, "process_new_approver_id", "reject")
       ELSE IF IntOf(text) \in APPROVERS
            THEN Reprompt(op, "process_new_approver_id", "reject")
       ELSE /\ fsm_data' = [fsm_data EXCEPT ![op].new_approver_id = Some(IntOf(text))]
            /\ fsm_state' = set_state(op, "waiting_for_approver_name")
            /\ reply' = Answer(op, "process_new_approver_id", "prompt")
            /\ UNCHANGED << roleVars, dbVars, tasks >>

process_new_approver_id(op, text) ==
    /\ fsm_state[op] = "waiting_for_new_approver_id"
    /\ IF ~is_admin(op) THEN DenyAndClear(op, "process_new_approver_id")
       ELSE IF ~IsInt(text) THEN Reprompt(op, "process_new_approver_id", "reject")
       ELSE IF IntOf(text) = helper_id THEN Reprompt(op, "process_new_approver_id", "reject")
       ELSE IF is_admin(IntOf(text)) THEN Reprompt(op, "process_new_approver_id", "reject")
       ELSE IF IntOf(text) \in APPROVERS
            THEN Reprompt(op, "process_new_approver_id", "reject")
       ELSE /\ fsm_data' = [fsm_data EXCEPT ![op].new_approver_id = Some(IntOf(text))]
            /\ fsm_state' = set_state(op, "waiting_for_approver_name")
            /\ reply' = Answer(op, "process_new_approver_id", "prompt")
            /\ UNCHANGED << roleVars, dbVars, tasks >>

\* Faulty variant of the commit: the result of add_approver is not looked at.
process_approver_name_unchecked(op, text) ==
    /\ fsm_state[op] = "waiting_for_approver_name"
    /\ IF ~is_admin(op) THEN DenyAndClear(op, "process_approver_name")
       ELSE IF strip(text) = << >> \/ Len(strip(text)) < 2
            THEN Reprompt(op, "process_approver_name", "reject")
       ELSE LET new_approver_id == fsm_data[op].new_approver_id[1]
            IN  /\ reply' = Answer(op, "process_approver_name", "done")
                /\ APPROVERS' = add_approver(new_approver_id)
                /\ fsm_state' = clear_state(op)
                /\ fsm_data' = clear_data(op)
                /\ UNCHANGED << helper_id, ADDITIONAL_ADMINS, dbVars, tasks >>

process_approver_name(op, text) ==
    /\ fsm_state[op] = "waiting_for_approver_name"
    /\ IF ~is_admin(op) THEN DenyAndClear(op, "process_approver_name")
       ELSE IF strip(text) = << >> \/ Len(strip(text)) < 2
            THEN Reprompt(op, "process_approver_name", "reject")
       ELSE LET new_approver_id == fsm_data[op].new_approver_id[1]
            IN  /\ reply' = Answer(op, "process_approver_name", IF add_approver_ok(new_approver_id) THEN "done" ELSE "failed")
                /\ APPROVERS' = add_approver(new_approver_id)
                /\ fsm_state' = clear_state(op)
                /\ fsm_data' = clear_data(op)
                /\ UNCHANGED << helper_id, ADDITIONAL_ADMINS, dbVars, tasks >>

\* callback "approver_remove"
remove_approver_start(op) ==
    IF ~is_admin(op) THEN Reprompt(op, "remove_approver_start", "deny")
    ELSE IF APPROVERS = {} THEN Reprompt(op, "remove_approver_start", "empty")
    ELSE /\ fsm_state' = set_state(op, "waiting_for_approver_delete_confirmation")
         /\ reply' = Answer(op, "remove_approver_start", "prompt")
         /\ UNCHANGED << roleVars, fsm_data, dbVars, tasks >>

process_approver_delete(op, text) ==
    /\ fsm_state[op] = "waiting_for_approver_delete_confirmation"
    /\ IF ~is_admin(op) THEN DenyAndClear(op, "process_approver_delete")
       ELSE IF ~IsInt(text) THEN Reprompt(op, "process_approver_delete", "reject")
       ELSE IF IntOf(text) = helper_id THEN Reprompt(op, "process_approver_delete", "reject")
       ELSE IF IntOf(text) \notin APPROVERS
            THEN Reprompt(op, "process_approver_delete", "reject")
       ELSE /\ reply' = Answer(op, "process_approver_delete", IF remove_approver_ok(IntOf(text)) THEN "done" ELSE "failed")
            /\ APPROVERS' = remove_approver(IntOf(text))
            /\ fsm_state' = clear_state(op)
            /\ fsm_data' = clear_data(op)
            /\ UNCHANGED << helper_id, ADDITIONAL_ADMINS, dbVars, tasks >>

\* -------------------------------------------------------- locator patterns
\* The literal heads of the patterns of process_group_link (admin.py:1090-1091)
\* and process_google_sheet_url (admin.py:1409).
GroupLinkHead == <<
    "h", "t", "t", "p", "s", ":", "/", "/", "t", ".", "m", "e", "/", "c",
    "/" >>
SheetUrlHead == <<
    "h", "t", "t", "p", "s", ":", "/", "/", "d", "o", "c", "s", ".", "g",
    "o", "o", "g", "l", "e", ".", "c", "o", "m", "/", "s", "p", "r", "e",
    "a", "d", "s", "h", "e", "e", "t", "s", "/", "d", "/" >>

StartsWith(s, head) == Len(s) >= Len(head) /\ SubSeq(s, 1, Len(head)) = head
Drop(s, n) == SubSeq(s, n + 1, Len(s))
\* The longest run of characters of cs that s starts with: what a greedy cs+ takes.
RECURSIVE Run(_, _)
Run(s, cs) == IF s # << >> /\ Head(s) \in cs THEN << Head(s) >> \o Run(Tail(s), cs) ELSE << >>

\* re.match(r"https://t\.me/c/(\d+)/(\d+)", link): the two groups, or None.
match_channel_topic(link) ==
    IF ~StartsWith(link, GroupLinkHead) THEN None
    ELSE LET a == Run(Drop(link, Len(GroupLinkHead)), DigitChars)
             r == Drop(link, Len(GroupLinkHead) + Len(a))
         IN  IF a = << >> \/ r = << >> \/ Head(r) # "/" THEN None
             ELSE LET b == Run(Tail(r), DigitChars)
                  IN  IF b = << >> THEN None ELSE Some(<< a, b >>)

\* re.match(r"https://t\.me/c/(\d+)", link): the group, or None.
match_channel_no_topic(link) ==
    IF ~StartsWith(link, GroupLinkHead) THEN None
    ELSE LET a == Run(Drop(link, Len(GroupLinkHead)), DigitChars)
         IN  IF a = << >> THEN None ELSE Some(a)

\* re.match(r"^-?\d+$", link)
match_numeric_id(link) ==
    LET d == IF link # << >> /\ Head(link) = "-" THEN Tail(link) ELSE link
    IN  d # << >> /\ AllDigits(d)

\* The (group_id, topic_id) process_group_link extracts, or None when no pattern
\* matches (admin.py:1094-1114).
parse_group_link(link) ==
    IF match_channel_topic(link) # None
    THEN Some([ group_id |-> IntOf(<<"-", "1", "0", "0">> \o match_channel_topic(link)[1][1]),
                topic_id |-> Some(IntOf(match_channel_topic(link)[1][2])) ])
    ELSE IF match_channel_no_topic(link) # None
    THEN Some([ group_id |-> IntOf(<<"-", "1", "0", "0">> \o match_channel_no_topic(link)[1]),
                topic_id |-> None ])
    ELSE IF match_numeric_id(link)
    THEN Some([ group_id |-> IntOf(link), topic_id |-> None ])
    ELSE None

SheetIdChars == DigitChars \cup {"a", "b", "A", "B", "_", "-"}
\* re.search(r"https://docs\.google\.com/spreadsheets/d/([a-zA-Z0-9_-]+)", url):
\* the group of the leftmost match, or None.
RECURSIVE search_sheet_url(_)
search_sheet_url(url) ==
    IF url = << >> THEN None
    ELSE IF StartsWith(url, SheetUrlHead)
            /\ Run(Drop(url, Len(SheetUrlHead)), SheetIdChars) # << >>
    THEN Some(Run(Drop(url, Len(SheetUrlHead)), SheetIdChars))
    ELSE search_sheet_url(Tail(url))

\* ---------------------------------------------------------------- database
\* The collaborator behind the functions imported at admin.py:15-26.  A sheet is
\* its row id; a group is its Telegram id and the row id of its sheet.
get_google_sheet_by_id(sheet_id) == sheet_id \in sheets
get_telegram_group_by_id(group_id) == \E g \in groups : g.group_id = group_id
\* add_telegram_group fails when the group is already there.
add_telegram_group_ok(group_id) == ~get_telegram_group_by_id(group_id)
add_telegram_group(group_id, sheet_id) ==
    IF add_telegram_group_ok(group_id)
    THEN groups \cup { [group_id |-> group_id, google_sheet_id |-> sheet_id] }
    ELSE groups
delete_telegram_group(group_id) == { g \in groups : g.group_id # group_id }
\* The row id add_google_sheet gives a new sheet.
FreeSheetIds == (1..MaxSheets) \ sheets

\* ------------------------------------------------------------- work-groups
\* callback "group_add"
add_group_start(op) ==
    IF ~is_admin(op)
    THEN Reprompt(op, "add_group_start", "deny")
    ELSE /\ fsm_state' = set_state(op, "waiting_for_group_link")
         /\ reply' = Answer(op, "add_group_start", "prompt")
         /\ UNCHANGED << roleVars, fsm_data, dbVars, tasks >>

\* Faulty variant of process_group_link: an accepted locator moves the session
\* past the name step, and a rejected one drops the step.
process_group_link_skipping(op, text) ==
    /\ fsm_state[op] = "waiting_for_group_link"
    /\ IF parse_group_link(strip(text)) = None
       THEN /\ reply' = Answer(op, "process_group_link", "reject")
            /\ fsm_state' = set_state(op, "waiting_for_group_name")
            /\ UNCHANGED << roleVars, fsm_data, dbVars, tasks >>
       ELSE /\ fsm_data' = [fsm_data EXCEPT
                   ![op].temp_group_id = Some(parse_group_link(strip(text))[1].group_id)]
            /\ fsm_state' = set_state(op, "waiting_for_group_sheet_selection")
            /\ reply' = Answer(op, "process_group_link", "prompt")
            /\ UNCHANGED << roleVars, dbVars, tasks >>

process_group_link(op, text) ==
    /\ fsm_state[op] = "waiting_for_group_link"
    /\ IF ~is_admin(op) THEN DenyAndClear(op, "process_group_link")
       ELSE IF parse_group_link(strip(text)) = None
            THEN Reprompt(op, "process_group_link", "reject")
       ELSE IF parse_group_link(strip(text))[1].group_id = 0
            THEN \* "if group_id:" is false: the handler ends without an answer,
                 \* which the observation records as the kind "none"
                 Reprompt(op, "process_group_link", "none")
       ELSE /\ fsm_data' = [fsm_data EXCEPT
                   ![op].temp_group_id = Some(parse_group_link(strip(text))[1].group_id),
                   ![op].temp_topic_id = parse_group_link(strip(text))[1].topic_id]
            /\ fsm_state' = set_state(op, "waiting_for_group_name")
            /\ reply' = Answer(op, "process_group_link", "prompt")
            /\ UNCHANGED << roleVars, dbVars, tasks >>

process_group_name(op, text) ==
    /\ fsm_state[op] = "waiting_for_group_name"
    /\ IF ~is_admin(op) THEN DenyAndClear(op, "process_group_name")
       ELSE IF strip(text) = << >> \/ Len(strip(text)) < 3
            THEN Reprompt(op, "process_group_name", "reject")
       ELSE /\ fsm_data' = [fsm_data EXCEPT ![op].temp_group_name = Some(strip(text))]
            /\ IF sheets = {}
               THEN /\ reply' = Answer(op, "process_group_name", "no_sheets")
                    /\ UNCHANGED fsm_state
               ELSE /\ fsm_state' = set_state(op, "waiting_for_group_sheet_selection")
                    /\ reply' = Answer(op, "process_group_name", "prompt")
            /\ UNCHANGED << roleVars, dbVars, tasks >>

\* Faulty variant of the sheet selection: the role is not looked at.
process_group_sheet_selection_ungated(op, sheet_id) ==
    /\ fsm_state[op] = "waiting_for_group_sheet_selection"
    /\ IF ~get_google_sheet_by_id(sheet_id)
       THEN Reprompt(op, "process_group_sheet_selection", "reject")
       ELSE LET group_id == fsm_data[op].temp_group_id[1]
            IN  /\ reply' = Answer(op, "process_group_sheet_selection", IF add_telegram_group_ok(group_id) THEN "done" ELSE "failed")
                /\ groups' = add_telegram_group(group_id, sheet_id)
                /\ fsm_state' = clear_state(op)
                /\ fsm_data' = clear_data(op)
                /\ UNCHANGED << roleVars, sheets, password, users, full_names, tasks >>

\* callback "select_sheet_<sheet_id>", filtered on the selection state
process_group_sheet_selection(op, sheet_id) ==
    /\ fsm_state[op] = "waiting_for_group_sheet_selection"
    /\ IF ~is_admin(op) THEN Reprompt(op, "process_group_sheet_selection", "deny")
       ELSE IF ~get_google_sheet_by_id(sheet_id)
            THEN Reprompt(op, "process_group_sheet_selection", "reject")
       ELSE LET group_id == fsm_data[op].temp_group_id[1]
            IN  /\ reply' = Answer(op, "process_group_sheet_selection", IF add_telegram_group_ok(group_id) THEN "done" ELSE "failed")
                /\ groups' = add_telegram_group(group_id, sheet_id)
                /\ fsm_state' = clear_state(op)
                /\ fsm_data' = clear_data(op)
                /\ UNCHANGED << roleVars, sheets, password, users, full_names, tasks >>

\* callback "group_delete"
delete_group_start(op) ==
    IF ~is_admin(op) THEN Reprompt(op, "delete_group_start", "deny")
    ELSE IF groups = {} THEN Reprompt(op, "delete_group_start", "empty")
    ELSE /\ fsm_state' = set_state(op, "waiting_for_group_id_to_delete")
         /\ reply' = Answer(op, "delete_group_start", "prompt")
         /\ UNCHANGED << roleVars, fsm_data, dbVars, tasks >>

\* Faulty variant of the group-id step: a text that is no number ends the flow.
process_group_delete_aborting(op, text) ==
    /\ fsm_state[op] = "waiting_for_group_id_to_delete"
    /\ IF ~is_admin(op) \/ ~IsInt(text) THEN DenyAndClear(op, "process_group_delete")
       ELSE IF ~get_telegram_group_by_id(IntOf(text))
            THEN Reprompt(op, "process_group_delete", "reject")
       ELSE /\ groups' = delete_telegram_group(IntOf(text))
            /\ reply' = Answer(op, "process_group_delete", "done")
            /\ fsm_state' = clear_state(op)
            /\ fsm_data' = clear_data(op)
            /\ UNCHANGED << roleVars, sheets, password, users, full_names, tasks >>

process_group_delete(op, text) ==
    /\ fsm_state[op] = "waiting_for_group_id_to_delete"
    /\ IF ~is_admin(op) THEN DenyAndClear(op, "process_group_delete")
       ELSE IF ~IsInt(text) THEN Reprompt(op, "process_group_delete", "reject")
       ELSE IF ~get_telegram_group_by_id(IntOf(text))
            THEN Reprompt(op, "process_group_delete", "reject")
       ELSE /\ groups' = delete_telegram_group(IntOf(text))
            /\ reply' = Answer(op, "process_group_delete", "done")
            /\ fsm_state' = clear_state(op)
            /\ fsm_data' = clear_data(op)
            /\ UNCHANGED << roleVars, sheets, password, users, full_names, tasks >>

\* ------------------------------------------------------ spreadsheet targets
\* callback "sheets_add"
add_sheet_start(op) ==
    IF ~is_admin(op)
    THEN Reprompt(op, "add_sheet_start", "deny")
    ELSE /\ fsm_state' = set_state(op, "waiting_for_sheet_name")
         /\ reply' = Answer(op, "add_sheet_start", "prompt")
         /\ UNCHANGED << roleVars, fsm_data, dbVars, tasks >>

process_sheet_name(op, text) ==
    /\ fsm_state[op] = "waiting_for_sheet_name"
    /\ IF ~is_admin(op) THEN DenyAndClear(op, "process_sheet_name")
       ELSE IF strip(text) = << >> \/ Len(strip(text)) < 3
            THEN Reprompt(op, "process_sheet_name", "reject")
       ELSE /\ fsm_data' = [fsm_data EXCEPT ![op].temp_sheet_name = Some(strip(text))]
            /\ fsm_state' = set_state(op, "waiting_for_google_sheet_url")
            /\ reply' = Answer(op, "process_sheet_name", "prompt")
            /\ UNCHANGED << roleVars, dbVars, tasks >>

process_google_sheet_url(op, text) ==
    /\ fsm_state[op] = "waiting_for_google_sheet_url"
    /\ IF ~is_admin(op) THEN DenyAndClear(op, "process_google_sheet_url")
       ELSE IF search_sheet_url(strip(text)) = None
            THEN Reprompt(op, "process_google_sheet_url", "reject")
       ELSE /\ fsm_data' = [fsm_data EXCEPT
                   ![op].temp_spreadsheet_id = search_sheet_url(strip(text))]
            /\ fsm_state' = set_state(op, "waiting_for_google_sheet_worksheet_name")
            /\ reply' = Answer(op, "process_google_sheet_url", "prompt")
            /\ UNCHANGED << roleVars, dbVars, tasks >>

\* The answer of the worksheet step: each outcome of get_worksheet has its own text.
Checked(op, kind, worksheet) ==
    [ op |-> op, h |-> "process_google_sheet_worksheet_name", kind |-> kind,
      detail |-> Some(worksheet) ]

\* Faulty variant: the record is saved whatever get_worksheet gives.
process_google_sheet_worksheet_name_unchecked(op, text, worksheet, saved) ==
    /\ fsm_state[op] = "waiting_for_google_sheet_worksheet_name"
    /\ IF ~is_admin(op) THEN DenyAndClear(op, "process_google_sheet_worksheet_name")
       ELSE IF strip(text) = << >>
            THEN Reprompt(op, "process_google_sheet_worksheet_name", "reject")
       ELSE /\ IF saved /\ FreeSheetIds # {}
               THEN /\ sheets' = sheets \cup { CHOOSE i \in FreeSheetIds :
                                                 \A j \in FreeSheetIds : i <= j }
                    /\ reply' = Checked(op, "done", worksheet)
               ELSE /\ sheets' = sheets
                    /\ reply' = Checked(op, "failed", worksheet)
            /\ fsm_state' = clear_state(op)
            /\ fsm_data' = clear_data(op)
            /\ UNCHANGED << roleVars, groups, password, users, full_names, tasks >>

\* worksheet: what get_worksheet gives ("found", "missing" or "raises");
\* saved: whether add_google_sheet then succeeds.
process_google_sheet_worksheet_name(op, text, worksheet, saved) ==
    /\ fsm_state[op] = "waiting_for_google_sheet_worksheet_name"
    /\ IF ~is_admin(op) THEN DenyAndClear(op, "process_google_sheet_worksheet_name")
       ELSE IF strip(text) = << >>
            THEN Reprompt(op, "process_google_sheet_worksheet_name", "reject")
       ELSE /\ IF worksheet = "found" /\ saved /\ FreeSheetIds # {}
               THEN /\ sheets' = sheets \cup { CHOOSE i \in FreeSheetIds :
                                                 \A j \in FreeSheetIds : i <= j }
                    /\ reply' = Checked(op, "done", worksheet)
               ELSE /\ sheets' = sheets
                    /\ reply' = Checked(op, "failed", worksheet)
            /\ fsm_state' = clear_state(op)
            /\ fsm_data' = clear_data(op)
            /\ UNCHANGED << roleVars, groups, password, users, full_names, tasks >>

\* callback "sheet_delete_<sheet_id>"
delete_sheet(op, sheet_id) ==
    IF ~is_admin(op) THEN Reprompt(op, "delete_sheet", "deny")
    ELSE IF ~get_google_sheet_by_id(sheet_id) THEN Reprompt(op, "delete_sheet", "reject")
    ELSE /\ sheets' = sheets \ {sheet_id}
         /\ reply' = Answer(op, "delete_sheet", "done")
         /\ UNCHANGED << roleVars, fsm_state, fsm_data, groups, password, users, full_names, tasks >>

\* ------------------------------------------------------------- access code
PasswordInputs == { <<"2", "0", "2">>, <<"2", "0", "2", "4">>, <<"2", "0", "2", "5">> }

\* callback "change_password_start"
start_password_change(op) ==
    IF ~is_admin(op)
    THEN Reprompt(op, "start_password_change", "deny")
    ELSE /\ fsm_state' = set_state(op, "waiting_for_new_password")
         /\ reply' = Answer(op, "start_password_change", "prompt")
         /\ UNCHANGED << roleVars, fsm_data, dbVars, tasks >>

process_new_password(op, text) ==
    /\ fsm_state[op] = "waiting_for_new_password"
    /\ IF ~is_admin(op) THEN DenyAndClear(op, "process_new_password")
       ELSE IF strip(text) = << >> \/ Len(strip(text)) < 4
            THEN Reprompt(op, "process_new_password", "reject")
       ELSE IF strip(text) = password
            THEN Reprompt(op, "process_new_password", "reject")
       ELSE /\ fsm_data' = [fsm_data EXCEPT ![op].new_password = Some(strip(text))]
            /\ fsm_state' = set_state(op, "waiting_for_password_confirmation")
            /\ reply' = Answer(op, "process_new_password", "prompt")
            /\ UNCHANGED << roleVars, dbVars, tasks >>

\* ------------------------------------------------------------------- tasks
\* A handler invocation suspended at an await: the handler, the operator whose
\* event it handles, the await it is at, and its local variables.
IdleTask == [ h |-> "idle", op |-> 0, pc |-> "idle", value |-> None,
              confirmation |-> None,
              all_users |-> << >>, idx |-> 0, sent_count |-> 0, error_count |-> 0,
              attempts |-> << >>, progress |-> 0 ]
Suspend(t, h, op, pc, value) ==
    [tasks EXCEPT ![t] = [IdleTask EXCEPT !.h = h, !.op = op, !.pc = pc, !.value = value]]
Finish(t) == [tasks EXCEPT ![t] = IdleTask]

\* The answer to a confirmation that differs from the new code.
Mismatch(op, confirmation) ==
    [ op |-> op, h |-> "process_password_confirmation", kind |-> "reject",
      detail |-> Some(confirmation) ]

\* Faulty variant: the confirmation is not compared with the new code.
process_password_confirmation_uncompared(op, text, t) ==
    /\ fsm_state[op] = "waiting_for_password_confirmation"
    /\ tasks[t] = IdleTask
    /\ IF ~is_admin(op) THEN DenyAndClear(op, "process_password_confirmation")
       ELSE /\ tasks' = [Suspend(t, "process_password_confirmation", op,
                                 "update_password", fsm_data[op].new_password)
                            EXCEPT ![t].confirmation = Some(strip(text))]
            /\ UNCHANGED << roleVars, fsm_state, fsm_data, dbVars, reply >>

\* Up to "await update_password(new_password)" (admin.py:2046-2065).
process_password_confirmation(op, text, t) ==
    /\ fsm_state[op] = "waiting_for_password_confirmation"
    /\ tasks[t] = IdleTask
    /\ IF ~is_admin(op) THEN DenyAndClear(op, "process_password_confirmation")
       ELSE IF Some(strip(text)) # fsm_data[op].new_password
            THEN /\ reply' = Mismatch(op, strip(text))
                 /\ UNCHANGED << roleVars, fsm_state, fsm_data, dbVars, tasks >>
       ELSE /\ tasks' = [Suspend(t, "process_password_confirmation", op,
                                 "update_password", fsm_data[op].new_password)
                            EXCEPT ![t].confirmation = Some(strip(text))]
            /\ UNCHANGED << roleVars, fsm_state, fsm_data, dbVars, reply >>

\* From the return of update_password to the end (admin.py:2065-2082).
\* success: what update_password returns.
password_confirmation_commit(t, success) ==
    /\ tasks[t].h = "process_password_confirmation"
    /\ tasks[t].pc = "update_password"
    /\ password' = IF success THEN tasks[t].value[1] ELSE password
    /\ reply' = Answer(tasks[t].op, "process_password_confirmation", IF success THEN "done" ELSE "failed")
    /\ fsm_state' = clear_state(tasks[t].op)
    /\ fsm_data' = clear_data(tasks[t].op)
    /\ tasks' = Finish(t)
    /\ UNCHANGED << roleVars, sheets, groups, users, full_names >>

\* process_group_sheet_selection as the event loop runs it when another
\* event is handled between its two database calls: from the callback to the
\* return of get_google_sheet_by_id (admin.py:1169-1183).
group_sheet_selection_check(op, sheet_id, t) ==
    /\ fsm_state[op] = "waiting_for_group_sheet_selection"
    /\ tasks[t] = IdleTask
    /\ IF ~is_admin(op) THEN Reprompt(op, "process_group_sheet_selection", "deny")
       ELSE IF ~get_google_sheet_by_id(sheet_id)
            THEN Reprompt(op, "process_group_sheet_selection", "reject")
       ELSE /\ tasks' = Suspend(t, "process_group_sheet_selection", op, "add_telegram_group",
                                Some([group_id |-> fsm_data[op].temp_group_id[1],
                                      sheet_id |-> sheet_id]))
            /\ UNCHANGED << roleVars, fsm_state, fsm_data, dbVars, reply >>

\* From the call of add_telegram_group to the end (admin.py:1187-1215).
group_sheet_selection_commit(t) ==
    LET job == tasks[t].value[1]
    IN  /\ tasks[t].h = "process_group_sheet_selection"
        /\ tasks[t].pc = "add_telegram_group"
        /\ reply' = Answer(tasks[t].op, "process_group_sheet_selection",
                           IF add_telegram_group_ok(job.group_id) THEN "done" ELSE "failed")
        /\ groups' = add_telegram_group(job.group_id, job.sheet_id)
        /\ fsm_state' = clear_state(tasks[t].op)
        /\ fsm_data' = clear_data(tasks[t].op)
        /\ tasks' = Finish(t)
        /\ UNCHANGED << roleVars, sheets, password, users, full_names >>

\* --------------------------------------------------------------- broadcast
BroadcastInputs == { <<"h", "i">>, <<"h", "e", "l", "l", "o">> }

start_broadcast_ungated(op) ==
    /\ fsm_state' = set_state(op, "waiting_for_broadcast_message")
    /\ reply' = Answer(op, "start_broadcast", "prompt")
    /\ UNCHANGED << roleVars, fsm_data, dbVars, tasks >>

\* callback "admin_broadcast"
start_broadcast(op) ==
    IF ~is_admin(op)
    THEN Reprompt(op, "start_broadcast", "deny")
    ELSE /\ fsm_state' = set_state(op, "waiting_for_broadcast_message")
         /\ reply' = Answer(op, "start_broadcast", "prompt")
         /\ UNCHANGED << roleVars, fsm_data, dbVars, tasks >>

process_broadcast_message(op, text) ==
    /\ fsm_state[op] = "waiting_for_broadcast_message"
    /\ IF ~is_admin(op) THEN DenyAndClear(op, "process_broadcast_message")
       ELSE IF strip(text) = << >> \/ Len(strip(text)) < 5
            THEN Reprompt(op, "process_broadcast_message", "reject")
       ELSE /\ fsm_data' = [fsm_data EXCEPT ![op].broadcast_message = Some(strip(text))]
            /\ fsm_state' = set_state(op, "waiting_for_broadcast_confirmation")
            /\ reply' = Answer(op, "process_broadcast_message", "prompt")
            /\ UNCHANGED << roleVars, dbVars, tasks >>

\* callback "confirm_broadcast", with no state filter: up to
\* "await get_all_users()" (admin.py:2496-2509).
confirm_broadcast(op, t) ==
    /\ tasks[t] = IdleTask
    /\ IF ~is_admin(op) THEN Reprompt(op, "confirm_broadcast", "deny")
       ELSE IF fsm_data[op].broadcast_message = None
            THEN /\ reply' = Answer(op, "confirm_broadcast", "no_message")
                 /\ fsm_state' = clear_state(op)
                 /\ fsm_data' = clear_data(op)
                 /\ UNCHANGED << roleVars, dbVars, tasks >>
       ELSE /\ tasks' = Suspend(t, "confirm_broadcast", op, "get_all_users",
                                fsm_data[op].broadcast_message)
            /\ UNCHANGED << roleVars, fsm_state, fsm_data, dbVars, reply >>

\* get_all_users() returns, then the "sending" status is shown (admin.py:2509-2520).
\* shown: whether that edit_text returns; it is outside every try.
broadcast_get_all_users(t, shown) ==
    /\ tasks[t].h = "confirm_broadcast"
    /\ tasks[t].pc = "get_all_users"
    /\ IF shown
       THEN /\ tasks' = [tasks EXCEPT ![t].pc = "send_message", ![t].all_users = users]
            /\ UNCHANGED reply
       ELSE /\ tasks' = Finish(t)
            /\ reply' = Answer(tasks[t].op, "confirm_broadcast", "edit_text_raised")
    /\ UNCHANGED << roleVars, fsm_state, fsm_data, dbVars >>

\* Faulty variant of the loop body: a recipient whose delivery raises is
\* counted in neither counter.
broadcast_send_message_uncounted(t, delivered) ==
    LET job == tasks[t]
    IN  /\ job.h = "confirm_broadcast"
        /\ job.pc = "send_message"
        /\ job.idx < Len(job.all_users)
        /\ tasks' = [tasks EXCEPT ![t] =
              [job EXCEPT !.idx = job.idx + 1,
                          !.attempts = Append(job.attempts, job.all_users[job.idx + 1]),
                          !.sent_count = IF delivered THEN job.sent_count + 1
                                         ELSE job.sent_count]]
        /\ UNCHANGED << roleVars, fsm_state, fsm_data, dbVars, reply >>

\* Faulty variant of the loop body: a delivery that raises ends the loop.
broadcast_send_message_aborting(t, delivered) ==
    LET job == tasks[t]
    IN  /\ job.h = "confirm_broadcast"
        /\ job.pc = "send_message"
        /\ job.idx < Len(job.all_users)
        /\ tasks' = [tasks EXCEPT ![t] =
              [job EXCEPT !.idx = IF delivered THEN job.idx + 1 ELSE Len(job.all_users),
                          !.attempts = Append(job.attempts, job.all_users[job.idx + 1]),
                          !.sent_count = IF delivered THEN job.sent_count + 1
                                         ELSE job.sent_count,
                          !.error_count = IF delivered THEN job.error_count
                                          ELSE job.error_count + 1]]
        /\ UNCHANGED << roleVars, fsm_state, fsm_data, dbVars, reply >>

\* Faulty variant of the loop body: the recipient is read from the registry as
\* it is now, not from the list fetched at confirmation.
broadcast_send_message_live(t, delivered) ==
    LET job == tasks[t]
    IN  /\ job.h = "confirm_broadcast"
        /\ job.pc = "send_message"
        /\ job.idx < Len(job.all_users)
        /\ tasks' = [tasks EXCEPT ![t] =
              [job EXCEPT !.idx = job.idx + 1,
                          !.attempts = IF job.idx < Len(users)
                                       THEN Append(job.attempts, users[job.idx + 1])
                                       ELSE job.attempts,
                          !.sent_count = IF delivered THEN job.sent_count + 1
                                         ELSE job.sent_count,
                          !.error_count = IF delivered THEN job.error_count
                                          ELSE job.error_count + 1]]
        /\ UNCHANGED << roleVars, fsm_state, fsm_data, dbVars, reply >>

\* One iteration of "for user in all_users" (admin.py:2523-2549).
\* delivered: whether bot.send_message returns instead of raising.
broadcast_send_message(t, delivered) ==
    LET job == tasks[t]
        sent == job.sent_count + 1
    IN  /\ job.h = "confirm_broadcast"
        /\ job.pc = "send_message"
        /\ job.idx < Len(job.all_users)
        /\ tasks' = [tasks EXCEPT ![t] =
              [job EXCEPT !.idx = job.idx + 1,
                          !.attempts = Append(job.attempts, job.all_users[job.idx + 1]),
                          !.sent_count = IF delivered THEN sent ELSE job.sent_count,
                          !.error_count = IF delivered THEN job.error_count
                                          ELSE job.error_count + 1,
                          !.progress = IF delivered /\ sent % 10 = 0
                                       THEN job.progress + 1 ELSE job.progress]]
        /\ UNCHANGED << roleVars, fsm_state, fsm_data, dbVars, reply >>

\* Faulty variant of the success rate: the digits after the first decimal are
\* cut off.
success_rate_truncated(sent_count, total) == (sent_count * 1000) \div total

\* round((sent_count / len(all_users)) * 100, 1) (admin.py:2557), in tenths of a
\* percent: the nearest tenth, a tie going to the even one. For the totals of
\* the model a tie occurs only where the quotient is exact in binary floating
\* point, so the float computation rounds as the exact one does.
success_rate(sent_count, total) ==
    LET n == sent_count * 1000
        q == n \div total
        r == n % total
    IN  IF 2 * r > total \/ (2 * r = total /\ q % 2 = 1) THEN q + 1 ELSE q

\* The numbers of final_text (admin.py:2552-2560), computed when len(all_users) > 0,
\* and the recipients send_message was called for, in order.
final_text(job) == [ total |-> Len(job.all_users), sent |-> job.sent_count,
                     errors |-> job.error_count, attempts |-> job.attempts,
                     rate |-> success_rate(job.sent_count, Len(job.all_users)) ]

\* After the loop (admin.py:2551-2564): the final text divides by len(all_users).
\* shown: whether the final edit_text returns; it is outside every try.
broadcast_final(t, shown) ==
    LET job == tasks[t]
    IN  /\ job.h = "confirm_broadcast"
        /\ job.pc = "send_message"
        /\ job.idx = Len(job.all_users)
        /\ tasks' = Finish(t)
        /\ IF Len(job.all_users) = 0
           THEN \* ZeroDivisionError leaves the handler
                /\ reply' = Answer(job.op, "confirm_broadcast", "ZeroDivisionError")
                /\ UNCHANGED << fsm_state, fsm_data >>
           ELSE IF shown
           THEN /\ reply' = [ op |-> job.op, h |-> "confirm_broadcast", kind |-> "report", detail |-> Some(final_text(job)) ]
                /\ fsm_state' = clear_state(job.op)
                /\ fsm_data' = clear_data(job.op)
           ELSE /\ reply' = [ op |-> job.op, h |-> "confirm_broadcast", kind |-> "edit_text_raised", detail |-> Some(final_text(job)) ]
                /\ UNCHANGED << fsm_state, fsm_data >>
        /\ UNCHANGED << roleVars, dbVars >>

\* ------------------------------------------------------------ user registry
\* The Telegram ids that register with the bot.
UserIds == 1..(MaxUsers + 2)
Registered(telegram_id) == \E i \in 1..Len(users) : users[i] = telegram_id
add_user_to_db(telegram_id) == Append(users, telegram_id)
delete_user_from_db(telegram_id) ==
    SelectSeq(users, LAMBDA u : u # telegram_id)
\* The full_name column: the row add_user_to_db writes and the rows that stay
\* after delete_user_from_db.
add_full_name(telegram_id, full_name) ==
    full_names \cup { [telegram_id |-> telegram_id, full_name |-> full_name] }
delete_full_name(telegram_id) == { r \in full_names : r.telegram_id # telegram_id }
\* The name of a user that registered before the run, and of one that registers
\* outside the flows of the operators.
NameOf(telegram_id) == << "U" >> \o Str(telegram_id)

\* The registration flow (bot.py:54-179) of a user who is not registered yet,
\* carried to its end: the row add_user_to_db writes (bot.py:164).
registration(user_id) ==
    /\ ~Registered(user_id)
    /\ users' = add_user_to_db(user_id)
    /\ full_names' = add_full_name(user_id, NameOf(user_id))
    /\ UNCHANGED << roleVars, fsm_state, fsm_data, sheets, groups, password, tasks, reply >>

\* ------------------------------------------------------------ registration
\* RegistrationStates (bot.py:29-32) are "waiting_for_password",
\* "waiting_for_full_name" and "waiting_for_group_selection".
\* What a user types at the name step.
FullNameInputs == { <<"A", "l", "i">>, <<"A", "l", "i", " ", "B">>, <<"B", "o">>, <<"A">> }

\* extract_first_name (bot.py:45-50): the first word of the text.
RECURSIVE first_word(_)
first_word(s) ==
    IF s = << >> \/ Head(s) = " " THEN << >> ELSE << Head(s) >> \o first_word(Tail(s))
extract_first_name(full_text) == first_word(strip(full_text))

check_user_exists(user_id) == Registered(user_id)
check_full_name_exists(full_name) == \E r \in full_names : r.full_name = full_name

\* The answer of handle_password with the text it was given.
Tried(op, kind, text) ==
    [op |-> op, h |-> "handle_password", kind |-> kind, detail |-> Some(text)]

\* /start (bot.py:54-77); blocked: what check_user_blocked returns.
handle_start(op, blocked) ==
    /\ fsm_data' = clear_data(op)
    /\ IF blocked
       THEN /\ reply' = Answer(op, "handle_start", "blocked")
            /\ fsm_state' = clear_state(op)
       ELSE IF check_user_exists(op)
       THEN /\ reply' = Answer(op, "handle_start", "menu")
            /\ fsm_state' = clear_state(op)
       ELSE /\ reply' = Answer(op, "handle_start", "prompt")
            /\ fsm_state' = set_state(op, "waiting_for_password")
    /\ UNCHANGED << roleVars, dbVars, tasks >>

\* Faulty variant: any text is taken for the access code.
handle_password_unchecked(op, text) ==
    /\ fsm_state[op] = "waiting_for_password"
    /\ IF check_user_exists(op)
       THEN /\ fsm_state' = clear_state(op)
            /\ fsm_data' = clear_data(op)
            /\ reply' = Tried(op, "menu", text)
       ELSE /\ fsm_state' = set_state(op, "waiting_for_full_name")
            /\ reply' = Tried(op, "prompt", text)
            /\ UNCHANGED fsm_data
    /\ UNCHANGED << roleVars, dbVars, tasks >>

\* a message in waiting_for_password (bot.py:80-104); the text is compared as
\* it was sent.
handle_password(op, text) ==
    /\ fsm_state[op] = "waiting_for_password"
    /\ IF text = password
       THEN IF check_user_exists(op)
            THEN /\ fsm_state' = clear_state(op)
                 /\ fsm_data' = clear_data(op)
                 /\ reply' = Tried(op, "menu", text)
            ELSE /\ fsm_state' = set_state(op, "waiting_for_full_name")
                 /\ reply' = Tried(op, "prompt", text)
                 /\ UNCHANGED fsm_data
       ELSE /\ reply' = Tried(op, "reject", text)
            /\ UNCHANGED << fsm_state, fsm_data >>
    /\ UNCHANGED << roleVars, dbVars, tasks >>

\* a message in waiting_for_full_name (bot.py:107-152)
handle_full_name(op, text) ==
    /\ fsm_state[op] = "waiting_for_full_name"
    /\ LET first_name == extract_first_name(strip(text))
       IN  IF Len(first_name) < 2
           THEN Reprompt(op, "handle_full_name", "reject")
           ELSE IF check_full_name_exists(first_name)
           THEN Reprompt(op, "handle_full_name", "taken")
           ELSE IF groups = {}
           THEN /\ fsm_state' = clear_state(op)
                /\ fsm_data' = clear_data(op)
                /\ reply' = Answer(op, "handle_full_name", "no_groups")
                /\ UNCHANGED << roleVars, dbVars, tasks >>
           ELSE /\ fsm_data' = [fsm_data EXCEPT ![op].full_name = Some(first_name)]
                /\ fsm_state' = set_state(op, "waiting_for_group_selection")
                /\ reply' = Answer(op, "handle_full_name", "prompt")
                /\ UNCHANGED << roleVars, dbVars, tasks >>

\* callback "select_registration_group_<group_id>" in waiting_for_group_selection
\* (bot.py:155-179). add_user_to_db writes the row with the stored name; what
\* it returns is not looked at.
handle_group_selection(op, group_id) ==
    /\ fsm_state[op] = "waiting_for_group_selection"
    /\ users' = add_user_to_db(op)
    /\ full_names' = IF fsm_data[op].full_name = None THEN full_names
                     ELSE add_full_name(op, fsm_data[op].full_name[1])
    /\ fsm_state' = clear_state(op)
    /\ fsm_data' = clear_data(op)
    /\ reply' = Answer(op, "handle_group_selection", "done")
    /\ UNCHANGED << roleVars, sheets, groups, password, tasks >>

\* callback "worker_delete_<telegram_id>"; success: what delete_user_from_db returns.
delete_worker(op, telegram_id, success) ==
    IF ~is_admin(op) THEN Reprompt(op, "delete_worker", "deny")
    ELSE IF ~Registered(telegram_id) THEN Reprompt(op, "delete_worker", "reject")
    ELSE /\ users' = IF success THEN delete_user_from_db(telegram_id) ELSE users
         /\ full_names' = IF success THEN delete_full_name(telegram_id) ELSE full_names
         /\ reply' = Answer(op, "delete_worker", IF success THEN "done" ELSE "failed")
         /\ UNCHANGED << roleVars, fsm_state, fsm_data, sheets, groups, password, tasks >>

\* ---------------------------------------------------------- specifications
\* The registered users: rows 1..n in registration order.
UserLists(n) == { [i \in 1..k |-> i] : k \in 0..n }

\* The state after the module is loaded (admin.py:79-80), over a database that
\* already holds some spreadsheet targets, work groups and users.
InitFrom(helpers, sheetSets, groupSets, userLists) ==
    /\ helper_id \in helpers
    /\ ADDITIONAL_ADMINS = {}
    /\ APPROVERS = {}
    /\ fsm_state = [op \in Operators |-> "None"]
    /\ fsm_data = [op \in Operators |-> EmptyData]
    /\ sheets \in sheetSets
    /\ groups \in groupSets
    /\ password = <<"2", "0", "2", "4">>
    /\ users \in userLists
    /\ full_names = { [telegram_id |-> users[i], full_name |-> NameOf(users[i])] :
                          i \in 1..Len(users) }
    /\ tasks = [t \in TaskIds |-> IdleTask]
    /\ reply = Answer(0, "none", "none")

\* The same with no work group yet.
InitOver(helpers, sheetSets, userLists) == InitFrom(helpers, sheetSets, { {} }, userLists)

\* The same with the primary approver configured.
InitWith(sheetSets, userLists) == InitOver({HELPER_ID}, sheetSets, userLists)

SheetSets == SUBSET (1..MaxSheets)

Init == InitWith(SheetSets, UserLists(MaxUsers))

\* The role console: the calls of the registry functions with any identity, and
\* every operator's events of the panel, of the administrator flows and of the
\* approver flows.
Next ==
    \/ \E user_id \in Ids : call_add_admin(user_id)
    \/ \E user_id \in Ids : call_remove_admin(user_id)
    \/ \E user_id \in Ids : call_add_approver(user_id)
    \/ \E user_id \in Ids : call_remove_approver(user_id)
    \/ \E op \in Operators : handle_admin_command(op)
    \/ \E op \in Operators : cancel_admin_action_handler(op)
    \/ \E op \in Operators : add_admin_start(op)
    \/ \E op \in Operators, text \in IdInputs : process_new_admin_id(op, text)
    \/ \E op \in Operators, text \in NameInputs : process_admin_name(op, text)
    \/ \E op \in Operators : remove_admin_start(op)
    \/ \E op \in Operators, text \in IdInputs : process_admin_delete(op, text)
    \/ \E op \in Operators : add_approver_start(op)
    \/ \E op \in Operators, text \in IdInputs : process_new_approver_id(op, text)
    \/ \E op \in Operators, text \in NameInputs : process_approver_name(op, text)
    \/ \E op \in Operators : remove_approver_start(op)
    \/ \E op \in Operators, text \in IdInputs : process_approver_delete(op, text)

Spec == InitWith({ {} }, { << >> }) /\ [][Next]_vars

\* A numeric group id, the id 0, and a text no pattern matches.
LinkInputs == { <<"-", "5">>, <<"0">>, <<"x">> }

\* The operators other than the primary administrator.
Staff == Operators \ {ADMIN_ID}
StaffIdInputs == {Txt(i) : i \in Staff} \cup { <<"x">> }

\* Role loss in the middle of a flow: the primary administrator adds and removes
\* administrators while the other operators are at the id step of the
\* add-approver flow and in the add-work-group and broadcast flows.
NextAuth ==
    \/ \E op \in Operators : cancel_admin_action_handler(op)
    \/ \E op \in Operators : add_admin_start(op)
    \/ \E op \in Operators, text \in StaffIdInputs : process_new_admin_id(op, text)
    \/ \E op \in Operators, text \in NameInputs : process_admin_name(op, text)
    \/ \E op \in Operators : remove_admin_start(op)
    \/ \E op \in Operators, text \in StaffIdInputs : process_admin_delete(op, text)
    \/ \E op \in Staff : add_approver_start(op)
    \/ \E op \in Staff, text \in IdInputs : process_new_approver_id(op, text)
    \/ \E op \in Staff : add_group_start(op)
    \/ \E op \in Staff, text \in LinkInputs : process_group_link(op, text)
    \/ \E op \in Staff, text \in NameInputs : process_group_name(op, text)
    \/ \E op \in Staff, sheet_id \in 1..MaxSheets : process_group_sheet_selection(op, sheet_id)
    \/ \E op \in Staff : start_broadcast(op)
    \/ \E op \in Staff, text \in BroadcastInputs : process_broadcast_message(op, text)
    \/ \E op \in Staff : confirm_broadcast(op, 1)
    \/ \E shown \in BOOLEAN : broadcast_get_all_users(1, shown)
    \/ \E delivered \in BOOLEAN : broadcast_send_message(1, delivered)
    \/ \E shown \in BOOLEAN : broadcast_final(1, shown)

SpecAuth == Init /\ [][NextAuth]_vars

\* The broadcast flow of the primary administrator over a database of up to
\* MaxRecipients users.
NextBroadcast ==
    \/ cancel_admin_action_handler(ADMIN_ID)
    \/ start_broadcast(ADMIN_ID)
    \/ \E text \in BroadcastInputs : process_broadcast_message(ADMIN_ID, text)
    \/ confirm_broadcast(ADMIN_ID, 1)
    \/ \E shown \in BOOLEAN : broadcast_get_all_users(1, shown)
    \/ \E delivered \in BOOLEAN : broadcast_send_message(1, delivered)
    \/ \E shown \in BOOLEAN : broadcast_final(1, shown)

SpecBroadcast == InitWith({ {} }, UserLists(MaxRecipients)) /\ [][NextBroadcast]_vars

\* The change-access-code flow with several updates of one operator in flight.
NextSession ==
    \/ \E op \in Operators : cancel_admin_action_handler(op)
    \/ \E op \in Operators : start_password_change(op)
    \/ \E op \in Operators, text \in PasswordInputs : process_new_password(op, text)
    \/ \E op \in Operators, text \in PasswordInputs, t \in TaskIds :
          process_password_confirmation(op, text, t)
    \/ \E t \in TaskIds, success \in BOOLEAN : password_confirmation_commit(t, success)

SpecSession == InitWith({ {} }, { << >> }) /\ [][NextSession]_vars

UrlInputs == { SheetUrlHead \o <<"a", "1">>, <<"x">> }
WorksheetInputs == { <<"S">>, <<" ">> }
Idle(op) == fsm_state[op] = "None"

\* The six multi-step flows, run one after the other by the primary
\* administrator: a flow is started from a session with no step.
NextFlows ==
    \/ cancel_admin_action_handler(ADMIN_ID)
    \/ Idle(ADMIN_ID) /\ add_group_start(ADMIN_ID)
    \/ \E text \in LinkInputs : process_group_link(ADMIN_ID, text)
    \/ \E text \in NameInputs : process_group_name(ADMIN_ID, text)
    \/ \E sheet_id \in 1..MaxSheets : process_group_sheet_selection(ADMIN_ID, sheet_id)
    \/ Idle(ADMIN_ID) /\ add_sheet_start(ADMIN_ID)
    \/ \E text \in NameInputs : process_sheet_name(ADMIN_ID, text)
    \/ \E text \in UrlInputs : process_google_sheet_url(ADMIN_ID, text)
    \/ \E text \in WorksheetInputs, worksheet \in {"found", "missing", "raises"},
          saved \in BOOLEAN :
          process_google_sheet_worksheet_name(ADMIN_ID, text, worksheet, saved)
    \/ Idle(ADMIN_ID) /\ add_admin_start(ADMIN_ID)
    \/ \E text \in IdInputs : process_new_admin_id(ADMIN_ID, text)
    \/ \E text \in NameInputs : process_admin_name(ADMIN_ID, text)
    \/ Idle(ADMIN_ID) /\ add_approver_start(ADMIN_ID)
    \/ \E text \in IdInputs : process_new_approver_id(ADMIN_ID, text)
    \/ \E text \in NameInputs : process_approver_name(ADMIN_ID, text)
    \/ Idle(ADMIN_ID) /\ start_password_change(ADMIN_ID)
    \/ \E text \in PasswordInputs : process_new_password(ADMIN_ID, text)
    \/ \E text \in PasswordInputs : process_password_confirmation(ADMIN_ID, text, 1)
    \/ \E success \in BOOLEAN : password_confirmation_commit(1, success)
    \/ Idle(ADMIN_ID) /\ start_broadcast(ADMIN_ID)
    \/ \E text \in BroadcastInputs : process_broadcast_message(ADMIN_ID, text)
    \/ confirm_broadcast(ADMIN_ID, 1)
    \/ \E shown \in BOOLEAN : broadcast_get_all_users(1, shown)
    \/ \E delivered \in BOOLEAN : broadcast_send_message(1, delivered)
    \/ \E shown \in BOOLEAN : broadcast_final(1, shown)

SpecFlows == Init /\ [][NextFlows]_vars

\* The authorization gate: the roles of the other operators are given and taken
\* by calls of the registry functions while these operators send the events of
\* every committing flow. An event that passes the check starts a flow from a
\* session with no step; an event that fails it arrives at any time.
Gated(op) == Idle(op) \/ ~is_admin(op)

NextGate ==
    \/ \E user_id \in Staff : call_add_admin(user_id)
    \/ \E user_id \in Staff : call_remove_admin(user_id)
    \/ \E user_id \in Staff : call_add_approver(user_id)
    \/ \E op \in Staff : cancel_admin_action_handler(op)
    \/ \E op \in Staff : Gated(op) /\ add_admin_start(op)
    \/ \E op \in Staff : Gated(op) /\ remove_admin_start(op)
    \/ \E op \in Staff : Gated(op) /\ add_approver_start(op)
    \/ \E op \in Staff, text \in IdInputs : process_new_approver_id(op, text)
    \/ \E op \in Staff : Gated(op) /\ remove_approver_start(op)
    \/ \E op \in Staff, text \in IdInputs : process_approver_delete(op, text)
    \/ \E op \in Staff : Gated(op) /\ add_group_start(op)
    \/ \E op \in Staff, text \in LinkInputs : process_group_link(op, text)
    \/ \E op \in Staff, text \in NameInputs : process_group_name(op, text)
    \/ \E op \in Staff, sheet_id \in 1..MaxSheets : process_group_sheet_selection(op, sheet_id)
    \/ \E op \in Staff : Gated(op) /\ delete_group_start(op)
    \/ \E op \in Staff, text \in LinkInputs : process_group_delete(op, text)
    \/ \E op \in Staff : Gated(op) /\ add_sheet_start(op)
    \/ \E op \in Staff, text \in NameInputs : process_sheet_name(op, text)
    \/ \E op \in Staff, text \in UrlInputs : process_google_sheet_url(op, text)
    \/ \E op \in Staff, text \in WorksheetInputs, worksheet \in {"found", "missing", "raises"},
          saved \in BOOLEAN :
          process_google_sheet_worksheet_name(op, text, worksheet, saved)
    \/ \E op \in Staff, sheet_id \in 1..MaxSheets : delete_sheet(op, sheet_id)
    \/ \E op \in Staff : Gated(op) /\ start_password_change(op)
    \/ \E op \in Staff, text \in PasswordInputs : process_new_password(op, text)
    \/ \E op \in Staff, text \in PasswordInputs : process_password_confirmation(op, text, 1)
    \/ \E success \in BOOLEAN : password_confirmation_commit(1, success)
    \/ \E op \in Staff : Gated(op) /\ start_broadcast(op)
    \/ \E op \in Staff, text \in BroadcastInputs : process_broadcast_message(op, text)
    \/ \E op \in Staff : confirm_broadcast(op, 1)
    \/ \E shown \in BOOLEAN : broadcast_get_all_users(1, shown)
    \/ \E delivered \in BOOLEAN : broadcast_send_message(1, delivered)
    \/ \E shown \in BOOLEAN : broadcast_final(1, shown)

SpecGate == Init /\ [][NextGate]_vars

\* The broadcast flow of the primary administrator while users register and
\* workers are deleted.
NextRegistry ==
    \/ \E user_id \in UserIds : registration(user_id)
    \/ \E telegram_id \in UserIds, success \in BOOLEAN :
          delete_worker(ADMIN_ID, telegram_id, success)
    \/ Idle(ADMIN_ID) /\ start_broadcast(ADMIN_ID)
    \/ process_broadcast_message(ADMIN_ID, <<"h", "e", "l", "l", "o">>)
    \/ confirm_broadcast(ADMIN_ID, 1)
    \/ \E shown \in BOOLEAN : broadcast_get_all_users(1, shown)
    \/ \E delivered \in BOOLEAN : broadcast_send_message(1, delivered)
    \/ \E shown \in BOOLEAN : broadcast_final(1, shown)

SpecRegistry == InitWith({ {} }, UserLists(MaxUsers + 1)) /\ [][NextRegistry]_vars

\* The identities the id step of the add-approver flow has to refuse.
Ineligible(id) == id = helper_id \/ is_admin(id) \/ id \in APPROVERS

\* The id step of the add-approver flow with identities that cannot become
\* approvers: the roles change by registry calls while the operators type the
\* helper's id, an administrator's id or a listed approver's id.
NextIneligible ==
    \/ \E user_id \in Ids : call_add_admin(user_id)
    \/ \E user_id \in Ids : call_remove_admin(user_id)
    \/ \E user_id \in Ids : call_add_approver(user_id)
    \/ \E user_id \in Ids : call_remove_approver(user_id)
    \/ \E op \in Operators : add_approver_start(op)
    \/ \E op \in Operators : cancel_admin_action_handler(op)
    \/ \E op \in Operators, id \in Ids :
          Ineligible(id) /\ process_new_approver_id(op, Txt(id))

SpecIneligible == InitWith({ {} }, { << >> }) /\ [][NextIneligible]_vars

\* What is no number for int(): a word, digits followed by a letter, a bare sign.
NonNumericInputs == { <<"x">>, <<"1", "x">>, <<"-">> }

\* The numeric-id steps with texts that are no number: the roles and the work
\* groups change by registry calls and by the add-work-group flow of the
\* primary administrator while the operators are at the numeric-id steps.
NextNonNumeric ==
    \/ \E user_id \in Ids : call_add_admin(user_id)
    \/ \E user_id \in Ids : call_remove_admin(user_id)
    \/ \E user_id \in Ids : call_add_approver(user_id)
    \/ \E user_id \in Ids : call_remove_approver(user_id)
    \/ Idle(ADMIN_ID) /\ add_group_start(ADMIN_ID)
    \/ process_group_link(ADMIN_ID, <<"-", "5">>)
    \/ process_group_name(ADMIN_ID, <<"A", "b", "c">>)
    \/ \E sheet_id \in 1..MaxSheets : process_group_sheet_selection(ADMIN_ID, sheet_id)
    \/ \E op \in Operators : Idle(op) /\ add_admin_start(op)
    \/ \E op \in Operators : Idle(op) /\ remove_admin_start(op)
    \/ \E op \in Operators : Idle(op) /\ add_approver_start(op)
    \/ \E op \in Operators : Idle(op) /\ remove_approver_start(op)
    \/ \E op \in Operators : Idle(op) /\ delete_group_start(op)
    \/ \E op \in Operators : cancel_admin_action_handler(op)
    \/ \E op \in Operators, text \in NonNumericInputs : process_new_admin_id(op, text)
    \/ \E op \in Operators, text \in NonNumericInputs : process_admin_delete(op, text)
    \/ \E op \in Operators, text \in NonNumericInputs : process_new_approver_id(op, text)
    \/ \E op \in Operators, text \in NonNumericInputs : process_approver_delete(op, text)
    \/ \E op \in Operators, text \in NonNumericInputs : process_group_delete(op, text)

SpecNonNumeric == InitWith({1..MaxSheets}, { << >> }) /\ [][NextNonNumeric]_vars

\* What an operator types at the first step of the add-work-group flow: a
\* numeric id with and without the minus sign, the id 0, a channel link with
\* and without a topic, and a text no pattern matches.
LocatorInputs ==
    { <<"-", "5">>, <<"5">>, <<"0">>,
      GroupLinkHead \o <<"7">>, GroupLinkHead \o <<"7", "/", "2">>,
      <<"n", "o", "t", "-", "a", "-", "l", "i", "n", "k">> }

\* The add-work-group flow of the primary administrator with every kind of
\* locator.
NextLocator ==
    \/ cancel_admin_action_handler(ADMIN_ID)
    \/ Idle(ADMIN_ID) /\ add_group_start(ADMIN_ID)
    \/ \E text \in LocatorInputs : process_group_link(ADMIN_ID, text)
    \/ \E text \in NameInputs : process_group_name(ADMIN_ID, text)
    \/ \E sheet_id \in 1..MaxSheets : process_group_sheet_selection(ADMIN_ID, sheet_id)

SpecLocator == InitWith(SheetSets, { << >> }) /\ [][NextLocator]_vars

\* -------------------------------------------------------------- properties
\* A broadcast job inside or just after its send loop.
InSendLoop(t) == tasks[t].h = "confirm_broadcast" /\ tasks[t].pc = "send_message"

\* C1: after every iteration of the send loop sent_count + error_count is the
\* number of recipients processed so far and 0 <= sent_count <= total; the
\* final numbers satisfy sent + errors = total, where total is the length of
\* the recipient list fetched at confirmation.
C1_CountsPartitionProcessed ==
    /\ \A t \in TaskIds : InSendLoop(t) =>
          /\ tasks[t].sent_count + tasks[t].error_count = tasks[t].idx
          /\ tasks[t].idx <= Len(tasks[t].all_users)
          /\ 0 <= tasks[t].sent_count
          /\ tasks[t].sent_count <= Len(tasks[t].all_users)
    /\ reply.detail # None =>
          /\ reply.detail[1].sent + reply.detail[1].errors = reply.detail[1].total
          /\ 0 <= reply.detail[1].sent
          /\ reply.detail[1].sent <= reply.detail[1].total
          /\ reply.detail[1].total = Len(users)

\* A final report over a list in which some deliveries succeeded and some failed.
C1_Witness ==
    /\ reply.kind = "report"
    /\ reply.detail[1].total >= 3
    /\ reply.detail[1].sent >= 1
    /\ reply.detail[1].errors >= 1

\* C2: a confirmed broadcast over an empty recipient list ends with a final
\* report of total 0, sent 0 and errors 0, and the session is cleared.
C2_EmptyListReports ==
    [][\A t \in TaskIds :
          (InSendLoop(t) /\ tasks[t].all_users = << >> /\ tasks'[t] = IdleTask) =>
              /\ reply'.kind = "report"
              /\ reply'.detail # None
              /\ reply'.detail[1].total = 0
              /\ reply'.detail[1].sent = 0
              /\ reply'.detail[1].errors = 0
              /\ fsm_state'[tasks[t].op] = "None"
              /\ fsm_data'[tasks[t].op] = EmptyData]_vars

\* C3: a delivery that raises adds one to error_count and changes nothing else
\* of the job but its position; the loop goes on to the later recipients, and
\* a job with failures still ends with the final numbers over every recipient.
C3_FailureDoesNotAbort ==
    [][\A t \in TaskIds : InSendLoop(t) =>
          /\ tasks'[t].error_count > tasks[t].error_count =>
                /\ tasks'[t].error_count = tasks[t].error_count + 1
                /\ tasks'[t].sent_count = tasks[t].sent_count
                /\ tasks'[t].idx = tasks[t].idx + 1
                /\ tasks'[t].all_users = tasks[t].all_users
                /\ InSendLoop(t)'
          /\ InSendLoop(t)' => tasks'[t].attempts = SubSeq(tasks'[t].all_users, 1, tasks'[t].idx)
          /\ (tasks[t].error_count > 0 /\ tasks'[t] = IdleTask) =>
                /\ reply'.detail # None
                /\ reply'.detail[1].errors = tasks[t].error_count
                /\ reply'.detail[1].attempts = tasks[t].all_users]_vars

\* A final report over every recipient of a list in which at least two
\* deliveries failed and at least two succeeded.
C3_Witness ==
    /\ reply.kind = "report"
    /\ reply.detail[1].errors >= 2
    /\ reply.detail[1].sent >= 2
    /\ reply.detail[1].attempts = users

\* C4: two events of one operator are never in the middle of their handlers at
\* the same time: no two suspended handler invocations belong to one operator.
C4_OneEventAtATime ==
    \A t1, t2 \in TaskIds :
        (t1 # t2 /\ tasks[t1].h # "idle" /\ tasks[t2].h # "idle") =>
            tasks[t1].op # tasks[t2].op

\* C5: no identity is at the same time an administrator (ADMIN_ID or a member
\* of ADDITIONAL_ADMINS) and a member of APPROVERS.
C5_AdminNotInApprovers ==
    \A i \in Ids : is_admin(i) => i \notin APPROVERS

\* C6: ADDITIONAL_ADMINS never contains ADMIN_ID and APPROVERS never contains
\* HELPER_ID.
C6_PrimariesNotListed ==
    /\ ADMIN_ID \notin ADDITIONAL_ADMINS
    /\ HELPER_ID \notin APPROVERS

\* add_admin(ADMIN_ID) has just been called on a registry with members in both
\* sets, and has returned False.
C6_Witness ==
    /\ reply.h = "add_admin"
    /\ reply.detail = Some([user_id |-> ADMIN_ID, result |-> FALSE])
    /\ ADDITIONAL_ADMINS # {}
    /\ APPROVERS # {}

\* The first step of each flow: where a flow-initiating action puts the session.
FirstSteps == { "waiting_for_group_link", "waiting_for_sheet_name",
                "waiting_for_new_admin_id", "waiting_for_new_approver_id",
                "waiting_for_new_password", "waiting_for_broadcast_message" }
\* The step that follows each non-terminal step of a flow.
Successor(step) ==
    CASE step = "waiting_for_group_link" -> "waiting_for_group_name"
      [] step = "waiting_for_group_name" -> "waiting_for_group_sheet_selection"
      [] step = "waiting_for_sheet_name" -> "waiting_for_google_sheet_url"
      [] step = "waiting_for_google_sheet_url" -> "waiting_for_google_sheet_worksheet_name"
      [] step = "waiting_for_new_admin_id" -> "waiting_for_admin_name"
      [] step = "waiting_for_new_approver_id" -> "waiting_for_approver_name"
      [] step = "waiting_for_new_password" -> "waiting_for_password_confirmation"
      [] step = "waiting_for_broadcast_message" -> "waiting_for_broadcast_confirmation"
      [] OTHER -> "None"

\* C7: an operator's step moves from one step to another only to the listed
\* successor of the step it was at, and only with the prompt that follows an
\* accepted input; a session with no step gets only a first step; the only
\* other change is the end of the session (commit, cancel, denial); an input
\* answered with a rejection leaves the step where it was.
C7_StepOnlyToSuccessor ==
    [][\A op \in Operators :
          /\ (fsm_state'[op] # fsm_state[op] /\ fsm_state'[op] # "None") =>
                /\ reply'.op = op
                /\ reply'.kind = "prompt"
                /\ IF fsm_state[op] = "None"
                   THEN fsm_state'[op] \in FirstSteps
                   ELSE fsm_state'[op] = Successor(fsm_state[op])
          /\ (reply'.op = op /\ reply'.kind = "reject") =>
                fsm_state'[op] = fsm_state[op]]_vars

\* The add-work-group flow has reached its last step after two accepted
\* inputs.
C7_Witness ==
    /\ fsm_state[ADMIN_ID] = "waiting_for_group_sheet_selection"
    /\ fsm_data[ADMIN_ID].temp_group_id # None
    /\ fsm_data[ADMIN_ID].temp_group_name # None
    /\ reply = Answer(ADMIN_ID, "process_group_name", "prompt")

\* C8: an input after which the operator is re-prompted and stays at the same
\* step leaves the session's fields as they were; this includes the name step
\* of the add-work-group flow when no spreadsheet target exists.
C8_RepromptKeepsFields ==
    [][\A op \in Operators :
          (/\ reply'.op = op
           /\ reply'.kind \in {"reject", "no_sheets"}
           /\ fsm_state[op] # "None"
           /\ fsm_state'[op] = fsm_state[op]) =>
              fsm_data'[op] = fsm_data[op]]_vars

\* The handlers of a flow-initiating action and of a discrete choice (callback
\* queries): they deny with an alert.  The other handlers take a text input.
StartHandlers == { "add_admin_start", "remove_admin_start", "add_approver_start",
                   "add_group_start", "start_broadcast" }
ChoiceHandlers == { "process_group_sheet_selection", "confirm_broadcast" }
\* The handler that takes the next input of each step: the state filters of the
\* handler registrations, and the confirm choice offered at the confirmation step.
StepHandler(step) ==
    CASE step = "waiting_for_group_link" -> "process_group_link"
      [] step = "waiting_for_group_name" -> "process_group_name"
      [] step = "waiting_for_group_sheet_selection" -> "process_group_sheet_selection"
      [] step = "waiting_for_group_id_to_delete" -> "process_group_delete"
      [] step = "waiting_for_sheet_name" -> "process_sheet_name"
      [] step = "waiting_for_google_sheet_url" -> "process_google_sheet_url"
      [] step = "waiting_for_google_sheet_worksheet_name" -> "process_google_sheet_worksheet_name"
      [] step = "waiting_for_new_password" -> "process_new_password"
      [] step = "waiting_for_password_confirmation" -> "process_password_confirmation"
      [] step = "waiting_for_new_admin_id" -> "process_new_admin_id"
      [] step = "waiting_for_admin_name" -> "process_admin_name"
      [] step = "waiting_for_admin_delete_confirmation" -> "process_admin_delete"
      [] step = "waiting_for_new_approver_id" -> "process_new_approver_id"
      [] step = "waiting_for_approver_name" -> "process_approver_name"
      [] step = "waiting_for_approver_delete_confirmation" -> "process_approver_delete"
      [] step = "waiting_for_broadcast_message" -> "process_broadcast_message"
      [] step = "waiting_for_broadcast_confirmation" -> "confirm_broadcast"
      [] OTHER -> "none"
Session(op) == << fsm_state[op], fsm_data[op] >>
NoSession == << "None", EmptyData >>
Denied(op) == reply'.op = op /\ reply'.kind = "deny"

C10_DeniedInputEndsSession ==
    [][\A op \in Operators :
          (Denied(op) /\ fsm_state[op] # "None" /\ reply'.h = StepHandler(fsm_state[op])) =>
              Session(op)' = NoSession]_vars

\* A step that handles an event of the operator: the handler answers the
\* operator and no suspended handler is resumed.
EventStep(op) ==
    /\ reply'.op = op
    /\ \A t \in TaskIds : tasks[t] = IdleTask \/ tasks'[t] = tasks[t]

\* C11: an event of an operator for whom is_admin is false when the event is
\* handled never puts that operator into a step of an administrator flow, never
\* advances such a step, and has no commit effect: no work group or spreadsheet
\* target is created or deleted, no role set and no access code changes, and no
\* broadcast or access-code commit is started.
C11_NonAdminEventInert ==
    [][\A op \in Operators :
          /\ fsm_state'[op] \notin {fsm_state[op], "None"} => is_admin(op)
          /\ (~is_admin(op) /\ EventStep(op)) =>
                /\ fsm_state'[op] \in {fsm_state[op], "None"}
                /\ fsm_data'[op] \in {fsm_data[op], EmptyData}
                /\ tasks' = tasks
                /\ dbVars' = dbVars
                /\ roleVars' = roleVars]_vars

\* An operator who lost the administrator role with a broadcast message waiting
\* for confirmation has pressed the confirmation and was denied: nothing is sent.
C11_Witness ==
    \E op \in Staff :
        /\ ~is_admin(op)
        /\ reply = Answer(op, "confirm_broadcast", "deny")
        /\ fsm_data[op].broadcast_message # None
        /\ \A t \in TaskIds : tasks[t] = IdleTask

\* The steps of the add-administrator and remove-administrator flows.
AdminSteps ==
    { "waiting_for_new_admin_id", "waiting_for_admin_name",
      "waiting_for_admin_delete_confirmation" }

\* C12: ADDITIONAL_ADMINS changes only in a step that handles an event of the
\* primary administrator, and no event puts another operator (additional
\* administrator, approver or anyone else) into a step of the add- or
\* remove-administrator flow or stores an identity to be added for them.
C12_OnlyPrimaryManagesAdmins ==
    [][/\ ADDITIONAL_ADMINS' # ADDITIONAL_ADMINS => EventStep(ADMIN_ID)
       /\ \A op \in Operators \ {ADMIN_ID} :
             /\ fsm_state'[op] \notin AdminSteps \ {fsm_state[op]}
             /\ fsm_data'[op].new_admin_id \in {fsm_data[op].new_admin_id, None}]_vars

\* An additional administrator has asked to add an administrator and was
\* denied, while being the only additional administrator.
C12_Witness ==
    \E op \in Staff :
        /\ ADDITIONAL_ADMINS = {op}
        /\ reply = Answer(op, "add_admin_start", "deny")
        /\ fsm_state[op] \notin AdminSteps

\* The handlers of the terminal steps that commit without an await between
\* their reads and writes of the session, and those that are suspended first.
AtomicCommitHandlers ==
    { "process_group_sheet_selection", "process_google_sheet_worksheet_name",
      "process_admin_name", "process_approver_name" }
SuspendedCommitHandlers == { "confirm_broadcast", "process_password_confirmation" }

\* The step in which the handler of an accepted terminal input ends after its
\* commit action was called: with success, with failure, or by an exception.
CommitReturns(op) ==
    \/ /\ tasks' = tasks
       /\ reply'.op = op
       /\ reply'.h \in AtomicCommitHandlers
       /\ reply'.kind \in {"done", "failed"}
    \/ \E t \in TaskIds :
          /\ tasks[t].op = op
          /\ tasks[t].h \in SuspendedCommitHandlers
          /\ tasks[t].pc \in {"send_message", "update_password"}
          /\ tasks'[t] = IdleTask

\* C13: once the commit action called for an accepted terminal input has
\* returned, with success or with failure, the operator has no active session.
C13_CommitEndsSession ==
    [][\A op \in Operators : CommitReturns(op) => Session(op)' = NoSession]_vars

\* The step that handles a press of the cancel choice by the operator.
CancelStep(op) ==
    /\ reply' = Answer(op, "cancel_admin_action_handler", "cancelled")
    /\ tasks' = tasks

\* C14: the cancel action leaves the operator with no step and no fields and
\* changes no database record, no role set and no access code; and from a
\* session with no step and no fields, as the cancel leaves it, no single
\* input of the operator (a press of the broadcast confirm choice included)
\* has a commit effect or starts a commit.
C14_CancelAbandonsFlow ==
    [][\A op \in Operators :
          /\ CancelStep(op) =>
                /\ Session(op)' = NoSession
                /\ dbVars' = dbVars
                /\ roleVars' = roleVars
          /\ (Session(op) = NoSession /\ EventStep(op)) =>
                /\ dbVars' = dbVars
                /\ roleVars' = roleVars
                /\ tasks' = tasks]_vars

\* The cancel choice was pressed and nothing of any flow was committed: the
\* session is empty, no handler is suspended, no work group exists and the
\* access code is the initial one.
C14_Witness ==
    /\ reply = Answer(ADMIN_ID, "cancel_admin_action_handler", "cancelled")
    /\ Session(ADMIN_ID) = NoSession
    /\ \A t \in TaskIds : tasks[t] = IdleTask
    /\ groups = {}
    /\ password = <<"2", "0", "2", "4">>

\* The step in which a flow-initiating action of an operator who has an active
\* session is accepted.
StartsOverSession(op) ==
    /\ fsm_state[op] # "None"
    /\ tasks' = tasks
    /\ reply'.op = op
    /\ reply'.h \in StartHandlers
    /\ reply'.kind = "prompt"

\* C15: when an operator with an active session triggers a flow-initiating
\* action, the session is afterwards at the first step of the new flow and
\* holds no field value accumulated by the previous flow.
C15_StartOverwritesSession ==
    [][\A op \in Operators : StartsOverSession(op) =>
          /\ fsm_state'[op] \in FirstSteps \cup {"waiting_for_admin_delete_confirmation"}
          /\ fsm_data'[op] = EmptyData]_vars

\* C16: the recipients of a broadcast and their order are those of the one list
\* fetched at confirmation: the list is the registry as get_all_users returned
\* it, it never changes while the loop runs, the recipients delivered to are
\* always its first idx entries in order, whatever registrations and deletions
\* happen meanwhile, and the total of the final report is its size.
C16_RecipientsFixedAtFetch ==
    [][\A t \in TaskIds :
          /\ (tasks[t].pc = "get_all_users" /\ InSendLoop(t)') =>
                tasks'[t].all_users = users
          /\ (InSendLoop(t) /\ InSendLoop(t)') =>
                /\ tasks'[t].all_users = tasks[t].all_users
                /\ tasks'[t].attempts = SubSeq(tasks[t].all_users, 1, tasks'[t].idx)
          /\ (InSendLoop(t) /\ tasks'[t] = IdleTask /\ reply'.kind = "report") =>
                /\ reply'.detail[1].attempts = tasks[t].all_users
                /\ reply'.detail[1].total = Len(tasks[t].all_users)]_vars

\* In the middle of a send loop the registry has lost a user of the fetched
\* list and gained a user who is not on it.
C16_Witness ==
    \E t \in TaskIds :
        /\ InSendLoop(t)
        /\ 0 < tasks[t].idx
        /\ tasks[t].idx < Len(tasks[t].all_users)
        /\ \E i \in 1..Len(tasks[t].all_users) : ~Registered(tasks[t].all_users[i])
        /\ \E u \in UserIds :
              /\ Registered(u)
              /\ \A i \in 1..Len(tasks[t].all_users) : tasks[t].all_users[i] # u

\* C17: in the send loop a progress update is emitted when the number of
\* processed recipients (successes plus failures) reaches a multiple of 10,
\* and at no other iteration.
C17_ProgressEveryTenProcessed ==
    [][\A t \in TaskIds :
          (InSendLoop(t) /\ InSendLoop(t)' /\ tasks'[t].idx = tasks[t].idx + 1) =>
              tasks'[t].progress =
                  tasks[t].progress + (IF tasks'[t].idx % 10 = 0 THEN 1 ELSE 0)]_vars

\* C18: a status update that fails never prevents a delivery and never changes
\* the counts: when confirm_broadcast ends because an update of the operator's
\* display raised, every recipient of the registry's list has been processed
\* and the counts are those of the loop.
C18_StatusFailureHarmless ==
    [][\A t \in TaskIds :
          (tasks[t].h = "confirm_broadcast" /\ tasks'[t] = IdleTask
              /\ reply'.kind = "edit_text_raised") =>
              \/ tasks[t].pc = "get_all_users" /\ users = << >>
              \/ /\ tasks[t].pc = "send_message"
                 /\ tasks[t].attempts = tasks[t].all_users
                 /\ reply'.detail = Some(final_text(tasks[t]))]_vars

\* The step in which the worksheet-name handler answers an accepted name.
SheetCommitStep(op) ==
    /\ fsm_state[op] = "waiting_for_google_sheet_worksheet_name"
    /\ tasks' = tasks
    /\ reply'.op = op
    /\ reply'.h = "process_google_sheet_worksheet_name"
    /\ reply'.kind \in {"done", "failed"}

\* C19: a spreadsheet target is created only by a commit whose connectivity
\* check found the worksheet; when the check gives no worksheet or raises, no
\* record is created and the operator's session is cleared.
C19_SheetOnlyAfterCheck ==
    [][/\ (sheets' \ sheets # {}) =>
             \E op \in Operators :
                 SheetCommitStep(op) /\ reply'.detail = Some("found")
       /\ \A op \in Operators :
             (SheetCommitStep(op) /\ reply'.detail # Some("found")) =>
                 /\ sheets' = sheets
                 /\ Session(op)' = NoSession]_vars

\* The connectivity check raised at the worksheet step: no spreadsheet target
\* exists and the administrator has no session.
C19_Witness ==
    /\ reply = Checked(ADMIN_ID, "failed", "raises")
    /\ sheets = {}
    /\ Session(ADMIN_ID) = NoSession

\* C20: is_admin(id) is true exactly when id is ADMIN_ID or a member of
\* ADDITIONAL_ADMINS; is_approver(id) is true exactly when id is HELPER_ID, a
\* member of APPROVERS, or an administrator.
C20_RolePredicates ==
    \A id \in Ids :
        /\ is_admin(id) <=> (id = ADMIN_ID \/ id \in ADDITIONAL_ADMINS)
        /\ is_approver(id) <=>
              (id = HELPER_ID \/ id \in APPROVERS \/ id = ADMIN_ID
                 \/ id \in ADDITIONAL_ADMINS)

\* The flow has made an identity an additional administrator that is neither
\* the helper nor listed in APPROVERS: it counts as an approver.
C20_Witness ==
    \E id \in Ids \ {ADMIN_ID, HELPER_ID} :
        /\ id \in ADDITIONAL_ADMINS
        /\ id \notin APPROVERS
        /\ is_approver(id)
        /\ reply = Answer(ADMIN_ID, "process_admin_name", "done")

\* The step that is a call fn(id) of a registry function.
CallOf(fn, id) ==
    /\ reply'.h = fn
    /\ reply'.kind = "returned"
    /\ reply'.detail[1].user_id = id

\* C21: add_approver(id) returns true and inserts id into APPROVERS exactly
\* when id is not HELPER_ID, id is no administrator and id is not in APPROVERS
\* yet; in every other case, an administrator in particular and whatever
\* APPROVERS holds, it returns false and leaves both role sets as they were.
C21_AddApproverContract ==
    [][\A id \in Ids : CallOf("add_approver", id) =>
          LET accepted == /\ id # HELPER_ID
                          /\ id # ADMIN_ID
                          /\ id \notin ADDITIONAL_ADMINS
                          /\ id \notin APPROVERS
          IN  /\ reply'.detail[1].result = accepted
              /\ APPROVERS' = IF accepted THEN APPROVERS \cup {id} ELSE APPROVERS
              /\ ADDITIONAL_ADMINS' = ADDITIONAL_ADMINS]_vars

\* add_approver was called for an additional administrator who is not listed
\* as an approver, and returned false.
C21_Witness ==
    \E id \in Ids :
        /\ id \in ADDITIONAL_ADMINS
        /\ id \notin APPROVERS
        /\ id # HELPER_ID
        /\ reply = Returned("add_approver", id, FALSE)

\* C22: remove_admin(ADMIN_ID) returns false; a call of add_admin or
\* remove_admin that returns false leaves ADDITIONAL_ADMINS as it was; a call
\* that returns true changes ADDITIONAL_ADMINS by exactly the id passed.
C22_AdminCallsFrame ==
    [][\A id \in Ids :
          /\ CallOf("remove_admin", ADMIN_ID) => reply'.detail[1].result = FALSE
          /\ (CallOf("add_admin", id) \/ CallOf("remove_admin", id)) =>
                (reply'.detail[1].result = FALSE =>
                    ADDITIONAL_ADMINS' = ADDITIONAL_ADMINS)
          /\ (CallOf("add_admin", id) /\ reply'.detail[1].result = TRUE) =>
                /\ id \notin ADDITIONAL_ADMINS
                /\ ADDITIONAL_ADMINS' = ADDITIONAL_ADMINS \cup {id}
          /\ (CallOf("remove_admin", id) /\ reply'.detail[1].result = TRUE) =>
                /\ id \in ADDITIONAL_ADMINS
                /\ ADDITIONAL_ADMINS' = ADDITIONAL_ADMINS \ {id}]_vars

\* remove_admin(ADMIN_ID) was called while additional administrators exist,
\* and returned false.
C22_Witness ==
    /\ reply = Returned("remove_admin", ADMIN_ID, FALSE)
    /\ ADDITIONAL_ADMINS # {}

\* C23: remove_approver(id) returns false and leaves APPROVERS as it was when
\* id is HELPER_ID or not in APPROVERS; otherwise it returns true and removes
\* exactly id, and afterwards is_approver(id) holds only if id is an
\* administrator. The remove-approver flow that reports success has removed
\* exactly one listed id.
C23_RemoveApproverContract ==
    [][/\ \A id \in Ids : CallOf("remove_approver", id) =>
             LET removable == id # HELPER_ID /\ id \in APPROVERS
             IN  /\ reply'.detail[1].result = removable
                 /\ APPROVERS' = IF removable THEN APPROVERS \ {id} ELSE APPROVERS
                 /\ removable => (is_approver(id)' <=> is_admin(id)')
       /\ (reply'.h = "process_approver_delete" /\ reply'.kind = "done") =>
             \E id \in APPROVERS \ {HELPER_ID} :
                 /\ APPROVERS' = APPROVERS \ {id}
                 /\ is_approver(id)' <=> is_admin(id)']_vars

\* remove_approver returned true for an identity that is also an additional
\* administrator: it is no member of APPROVERS any more and still an approver.
C23_Witness ==
    \E id \in Ids :
        /\ reply = Returned("remove_approver", id, TRUE)
        /\ id \in ADDITIONAL_ADMINS
        /\ id \notin APPROVERS
        /\ is_approver(id)

\* C24: the stored access code changes only in the commit of a confirmation
\* that equals the new code the session held, and becomes exactly that code;
\* a commit is started only by such a confirmation; a confirmation that
\* differs leaves the stored code as it was and the session at the
\* confirmation step with the same new code.
C24_CodeChangesOnMatchOnly ==
    [][/\ password' # password =>
             \E t \in TaskIds :
                 /\ tasks[t].h = "process_password_confirmation"
                 /\ tasks'[t] = IdleTask
                 /\ tasks[t].confirmation = tasks[t].value
                 /\ password' = tasks[t].value[1]
       /\ \A t \in TaskIds :
             (tasks[t] = IdleTask /\ tasks'[t].h = "process_password_confirmation") =>
                 /\ fsm_state[tasks'[t].op] = "waiting_for_password_confirmation"
                 /\ tasks'[t].value = fsm_data[tasks'[t].op].new_password
                 /\ tasks'[t].confirmation = tasks'[t].value
       /\ \A op \in Operators :
             (\E text \in PasswordInputs : reply' = Mismatch(op, text)) =>
                 /\ reply'.detail # fsm_data[op].new_password
                 /\ password' = password
                 /\ fsm_state'[op] = "waiting_for_password_confirmation"
                 /\ Session(op)' = Session(op)]_vars

\* A confirmation equal to the new code "2025" was committed: the stored code
\* is "2025" and the session is over.
C24_Witness ==
    /\ password = <<"2", "0", "2", "5">>
    /\ reply = Answer(ADMIN_ID, "process_password_confirmation", "done")
    /\ Session(ADMIN_ID) = NoSession

\* The step in which the id step of the add-approver flow answers an
\* administrator.
ApproverIdStep(op) ==
    /\ is_admin(op)
    /\ fsm_state[op] = "waiting_for_new_approver_id"
    /\ reply'.op = op
    /\ reply'.h = "process_new_approver_id"

\* C25: when the id typed at the id step of the add-approver flow is
\* HELPER_ID, an administrator or a member of APPROVERS, the input is rejected:
\* the session stays at the id step with its fields, the name step is not
\* reached, and APPROVERS is unchanged.
C25_IneligibleIdRejected ==
    [][\A op \in Operators :
          /\ ApproverIdStep(op) =>
                /\ reply'.kind = "reject"
                /\ Session(op)' = Session(op)
                /\ APPROVERS' = APPROVERS
          /\ fsm_state'[op] # "waiting_for_approver_name"]_vars

\* An additional administrator at the id step was refused an id while the
\* helper, two administrators and a listed approver exist.
C25_Witness ==
    \E op \in Staff :
        /\ op \in ADDITIONAL_ADMINS
        /\ APPROVERS # {}
        /\ reply = Answer(op, "process_new_approver_id", "reject")
        /\ fsm_state[op] = "waiting_for_new_approver_id"
        /\ fsm_data[op] = EmptyData

\* C26: every group id the first step of the add-work-group flow accepts and
\* stores in the session is a negative number; an input that the handler
\* rejects leaves the session at the first step as it was.
C26_StoredGroupIdNegative ==
    [][\A op \in Operators :
          /\ (fsm_state[op] = "waiting_for_group_link"
                /\ fsm_state'[op] = "waiting_for_group_name") =>
                /\ fsm_data'[op].temp_group_id # None
                /\ fsm_data'[op].temp_group_id[1] < 0
          /\ (fsm_state[op] = "waiting_for_group_link"
                /\ reply' = Answer(op, "process_group_link", "reject")) =>
                Session(op)' = Session(op)]_vars

\* The steps that take a numeric id.
NumericIdSteps ==
    { "waiting_for_new_admin_id", "waiting_for_admin_delete_confirmation",
      "waiting_for_new_approver_id", "waiting_for_approver_delete_confirmation",
      "waiting_for_group_id_to_delete" }

\* C27: at every numeric-id step a text that is no number, typed by an
\* operator who passes the step's authorization check, is rejected with a
\* re-prompt: the operator stays at the same step with the same fields, and no
\* role set and no database record changes.
C27_NonNumericReprompts ==
    [][\A op \in Operators :
          (/\ fsm_state[op] \in NumericIdSteps
           /\ reply'.op = op
           /\ reply'.h = StepHandler(fsm_state[op])
           /\ IF fsm_state[op] \in AdminSteps THEN op = ADMIN_ID ELSE is_admin(op)) =>
              /\ reply'.kind = "reject"
              /\ Session(op)' = Session(op)
              /\ roleVars' = roleVars
              /\ dbVars' = dbVars]_vars

\* With a work group in the database, an administrator at the group-id step of
\* the delete flow typed a text that is no number and was re-prompted.
C27_Witness ==
    \E op \in Operators :
        /\ is_admin(op)
        /\ groups # {}
        /\ fsm_state[op] = "waiting_for_group_id_to_delete"
        /\ reply = Answer(op, "process_group_delete", "reject")

\* A broadcast of another operator while the primary administrator runs the
\* add-administrator and remove-administrator flows: every update is handled in
\* a task of its own (bot.py:257-267), so the handlers interleave with the send
\* loop at its awaits.
NextConcurrent ==
    \/ \E op \in Operators : cancel_admin_action_handler(op)
    \/ \E op \in Operators : add_admin_start(op)
    \/ \E op \in Operators, text \in StaffIdInputs : process_new_admin_id(op, text)
    \/ \E op \in Operators, text \in NameInputs : process_admin_name(op, text)
    \/ \E op \in Operators : remove_admin_start(op)
    \/ \E op \in Operators, text \in StaffIdInputs : process_admin_delete(op, text)
    \/ \E op \in Staff : start_broadcast(op)
    \/ \E op \in Staff, text \in BroadcastInputs : process_broadcast_message(op, text)
    \/ \E op \in Staff : confirm_broadcast(op, 1)
    \/ \E shown \in BOOLEAN : broadcast_get_all_users(1, shown)
    \/ \E delivered \in BOOLEAN : broadcast_send_message(1, delivered)
    \/ \E shown \in BOOLEAN : broadcast_final(1, shown)

SpecConcurrent == InitWith({ {} }, UserLists(MaxUsers + 1)) /\ [][NextConcurrent]_vars

Outsider == HELPER_ID + 1
\* What the administrators type at the id step of the add-approver flow: the
\* identity without a role, the helper, and a word.
RaceIdInputs == { Txt(Outsider), Txt(HELPER_ID), <<"x">> }

\* Two administrators in the add-approver flow for the same identity: the
\* flows interleave at the handlers' boundaries in every order.
NextRace ==
    \/ \E user_id \in Staff : call_add_admin(user_id)
    \/ \E op \in Operators : cancel_admin_action_handler(op)
    \/ \E op \in Operators : add_approver_start(op)
    \/ \E op \in Operators, text \in RaceIdInputs : process_new_approver_id(op, text)
    \/ \E op \in Operators, text \in NameInputs : process_approver_name(op, text)

SpecRace == InitWith({ {} }, { << >> }) /\ [][NextRace]_vars

\* C29: when two administrators run the add-approver flow for the same id, a
\* commit reports success exactly when the id is not yet an approver, and then
\* adds it; a commit that finds the id already added reports failure and
\* leaves the approver set as it is; either way the committing operator's
\* session is cleared and the id is an approver in the state the commit
\* leaves, and no step removes an approver, so the id is added at most once.
C29_SameIdAddedOnce ==
    [][ /\ APPROVERS \subseteq APPROVERS'
        /\ \A op \in Operators :
              ( /\ fsm_state[op] = "waiting_for_approver_name"
                /\ reply'.op = op
                /\ reply'.h = "process_approver_name"
                /\ reply'.kind \in {"done", "failed"} )
              => \E id \in Ids \cup {Outsider} :
                     /\ id = fsm_data[op].new_approver_id[1]
                     /\ reply'.kind = "done" <=> id \notin APPROVERS
                     /\ APPROVERS' = APPROVERS \cup {id}
                     /\ Session(op)' = NoSession
                     /\ is_approver(id)'
                     /\ ADDITIONAL_ADMINS' = ADDITIONAL_ADMINS ]_vars

\* Both administrators passed the id step with the same id; the second commit
\* found it added and reported failure.
C29_Witness ==
    /\ ADDITIONAL_ADMINS = Staff
    /\ APPROVERS = {Outsider}
    /\ reply = Answer(ADMIN_ID + 1, "process_approver_name", "failed")
    /\ Session(ADMIN_ID + 1) = NoSession
    /\ Session(ADMIN_ID) = NoSession

\* The largest recipient list of the report scenarios.
MaxReport == 23
\* A recipient that blocked the bot: bot.send_message raises for it. The user
\* at position i of the list has the id i, or MaxReport + i when it blocked.
Blocked(telegram_id) == telegram_id > MaxReport
\* The positions of the recipients that blocked the bot.
FailingSets == { {}, {5, 17}, {1}, {i \in 1..MaxReport : i % 2 = 1},
                 {i \in 1..MaxReport : i % 3 = 0}, 1..MaxReport }
ReportLists ==
    { [i \in 1..n |-> IF i \in F THEN MaxReport + i ELSE i] :
          n \in 1..MaxReport, F \in FailingSets }

\* The broadcast flow of the primary administrator over registries in which
\* the delivery to a recipient fails exactly when the recipient blocked the bot.
NextReport ==
    \/ cancel_admin_action_handler(ADMIN_ID)
    \/ start_broadcast(ADMIN_ID)
    \/ \E text \in BroadcastInputs : process_broadcast_message(ADMIN_ID, text)
    \/ confirm_broadcast(ADMIN_ID, 1)
    \/ \E shown \in BOOLEAN : broadcast_get_all_users(1, shown)
    \/ /\ InSendLoop(1)
       /\ tasks[1].idx < Len(tasks[1].all_users)
       /\ broadcast_send_message(1, ~Blocked(tasks[1].all_users[tasks[1].idx + 1]))
    \/ \E shown \in BOOLEAN : broadcast_final(1, shown)

SpecReport == InitWith({ {} }, ReportLists) /\ [][NextReport]_vars

\* The positions of the recipients of a report whose delivery failed.
FailedPositions(report) == {i \in 1..Len(report.attempts) : Blocked(report.attempts[i])}

\* C30: the success rate of the final report, in tenths of a percent, is the
\* tenth nearest to sent_count / total * 100; when 23 recipients were
\* processed and exactly the recipients 5 and 17 failed, the report is total
\* 23, sent 21, errors 2 and success rate 91.3.
C30_SuccessRateRounded ==
    reply.kind = "report" =>
        LET report == reply.detail[1]
            off == report.rate * report.total - report.sent * 1000
        IN  /\ 2 * off <= report.total
            /\ 2 * off >= 0 - report.total
            /\ (Len(report.attempts) = 23 /\ FailedPositions(report) = {5, 17}) =>
                  /\ report.total = 23
                  /\ report.sent = 21
                  /\ report.errors = 2
                  /\ report.rate = 913

\* The final report of the broadcast to 23 recipients of which the recipients
\* 5 and 17 failed.
C30_Witness ==
    /\ reply.kind = "report"
    /\ Len(reply.detail[1].attempts) = 23
    /\ FailedPositions(reply.detail[1]) = {5, 17}
    /\ reply.detail[1].rate = 913

\* The broadcast flow of the primary administrator when every call of the
\* notification channel comes back: a delivery returns or raises, and the
\* final edit_text returns. The event loop resumes a coroutine whose await has
\* completed, so the loop step and the step after the loop are taken when they
\* stay possible (asyncio scheduling, bot.py:267).
NextDelivering ==
    \/ cancel_admin_action_handler(ADMIN_ID)
    \/ start_broadcast(ADMIN_ID)
    \/ \E text \in BroadcastInputs : process_broadcast_message(ADMIN_ID, text)
    \/ confirm_broadcast(ADMIN_ID, 1)
    \/ \E shown \in BOOLEAN : broadcast_get_all_users(1, shown)
    \/ \E delivered \in BOOLEAN : broadcast_send_message(1, delivered)
    \/ broadcast_final(1, TRUE)

SpecDelivering ==
    /\ InitWith({ {} }, UserLists(MaxRecipients))
    /\ [][NextDelivering]_vars
    /\ WF_vars(\E delivered \in BOOLEAN : broadcast_send_message(1, delivered))
    /\ WF_vars(broadcast_final(1, TRUE))

\* C31 as stated: when every delivery call comes back, a send loop that has
\* started ends and the final report is produced.
C31_LoopEndsWithReport ==
    \A t \in TaskIds : InSendLoop(t) ~> (tasks[t] = IdleTask /\ reply.kind = "report")

\* The same over a fetched list that is not empty.
NonEmptyLoopEndsWithReport ==
    \A t \in TaskIds :
        (InSendLoop(t) /\ tasks[t].all_users # << >>)
            ~> (tasks[t] = IdleTask /\ reply.kind = "report")

\* C32 as stated: a send over the recipients starts only from a confirm choice
\* that arrives while the operator's session is at the broadcast confirmation
\* step.
C32_SendOnlyAtConfirmationStep ==
    [][\A t \in TaskIds :
          (tasks[t] = IdleTask /\ tasks'[t].h = "confirm_broadcast") =>
              fsm_state[tasks'[t].op] = "waiting_for_broadcast_confirmation"]_vars

\* The broadcast flow of the primary administrator when the confirm choice can
\* be pressed again while an earlier press is still being handled: every
\* callback is handled in a task of its own (bot.py:257-267).
NextRepeat ==
    \/ cancel_admin_action_handler(ADMIN_ID)
    \/ start_broadcast(ADMIN_ID)
    \/ \E text \in BroadcastInputs : process_broadcast_message(ADMIN_ID, text)
    \/ \E t \in TaskIds : confirm_broadcast(ADMIN_ID, t)
    \/ \E t \in TaskIds, shown \in BOOLEAN : broadcast_get_all_users(t, shown)
    \/ \E t \in TaskIds, delivered \in BOOLEAN : broadcast_send_message(t, delivered)
    \/ \E t \in TaskIds, shown \in BOOLEAN : broadcast_final(t, shown)

SpecRepeat == InitWith({ {} }, UserLists(MaxUsers + 1)) /\ [][NextRepeat]_vars

\* C33 as stated: while the send loop started by one press of the confirm
\* choice is running, no second send loop of the same operator over the same
\* message is running.
C33_OneSendPerMessage ==
    \A t1 \in TaskIds, t2 \in TaskIds :
        ( /\ InSendLoop(t1)
          /\ InSendLoop(t2)
          /\ tasks[t1].op = tasks[t2].op
          /\ tasks[t1].value = tasks[t2].value
          /\ tasks[t1].all_users # << >> ) => t1 = t2

\* C34 as stated: a text received by an administrator at the first step of the
\* add-work-group flow is either rejected with a message, the session staying
\* at that step, or accepted, the group id being stored and the session moving
\* to the name step.
C34_LinkInputAnsweredOrAccepted ==
    [][\A op \in Operators :
          ( /\ fsm_state[op] = "waiting_for_group_link"
            /\ is_admin(op)
            /\ reply'.op = op
            /\ reply'.h = "process_group_link" ) =>
              \/ /\ reply'.kind = "reject"
                 /\ Session(op)' = Session(op)
              \/ /\ reply'.kind = "prompt"
                 /\ fsm_state'[op] = "waiting_for_group_name"
                 /\ fsm_data'[op].temp_group_id # None]_vars

\* The add-work-group flow of the primary administrator while another
\* administrator deletes spreadsheet targets; the sheet-selection handler is suspended between
\* its existence check and its create call.
NextSheetRace ==
    \/ \E user_id \in Staff : call_add_admin(user_id)
    \/ cancel_admin_action_handler(ADMIN_ID)
    \/ Idle(ADMIN_ID) /\ add_group_start(ADMIN_ID)
    \/ \E text \in LinkInputs : process_group_link(ADMIN_ID, text)
    \/ \E text \in NameInputs : process_group_name(ADMIN_ID, text)
    \/ \E sheet_id \in 1..MaxSheets : group_sheet_selection_check(ADMIN_ID, sheet_id, 1)
    \/ group_sheet_selection_commit(1)
    \/ \E op \in Staff, sheet_id \in 1..MaxSheets : delete_sheet(op, sheet_id)

SpecSheetRace == InitWith(SheetSets, { << >> }) /\ [][NextSheetRace]_vars

\* C35 as stated: a work-group record is created only bound to a spreadsheet
\* target that exists when the record is created.
C35_GroupBoundToExistingSheet ==
    [][\A g \in groups' \ groups : get_google_sheet_by_id(g.google_sheet_id)]_vars

\* Two administrators in the change-access-code flow at the same time.
NextCodeRace ==
    \/ \E user_id \in Staff : call_add_admin(user_id)
    \/ \E op \in Operators : cancel_admin_action_handler(op)
    \/ \E op \in Operators : Idle(op) /\ start_password_change(op)
    \/ \E op \in Operators, text \in PasswordInputs : process_new_password(op, text)
    \/ \E op \in Operators, text \in PasswordInputs : process_password_confirmation(op, text, op)
    \/ \E op \in Operators : password_confirmation_commit(op, TRUE)

SpecCodeRace == InitWith({ {} }, { << >> }) /\ [][NextCodeRace]_vars

\* C36 as stated: the commit of the change-access-code flow never writes a
\* code equal to the access code that is current when it writes.
C36_WrittenCodeDiffers ==
    [][\A t \in TaskIds :
          ( /\ tasks[t].h = "process_password_confirmation"
            /\ tasks'[t] = IdleTask
            /\ reply'.kind = "done" ) => tasks[t].value[1] # password]_vars

\* C37: while an operator other than the primary administrator is not in
\* ADDITIONAL_ADMINS, whatever step of a flow the operator was left at, every
\* flow-initiating choice and every input to a step that arrives from the
\* operator is answered with a denial, advances no step (the step stays or is
\* dropped), and has no commit effect.
C37_RemovedAdminDenied ==
    [][\A x \in Staff :
          ( /\ x \notin ADDITIONAL_ADMINS
            /\ EventStep(x)
            /\ reply'.h # "cancel_admin_action_handler" ) =>
              /\ reply'.kind = "deny"
              /\ fsm_state'[x] \in {fsm_state[x], "None"}
              /\ fsm_data'[x] \in {fsm_data[x], EmptyData}
              /\ tasks' = tasks
              /\ dbVars' = dbVars
              /\ roleVars' = roleVars]_vars

\* An administrator was removed at the sheet-selection step of the
\* add-work-group flow, with the group id and the name stored; the selection
\* that followed was denied and no group was created.
C37_Witness ==
    \E x \in Staff :
        /\ x \notin ADDITIONAL_ADMINS
        /\ fsm_state[x] = "waiting_for_group_sheet_selection"
        /\ fsm_data[x].temp_group_name # None
        /\ reply = Answer(x, "process_group_sheet_selection", "deny")
        /\ groups = {}

\* The role registry and the approver flows of the primary administrator in a
\* deployment with a primary approver and in one with HELPER_ID = 0.
NextConfig ==
    \/ \E user_id \in Ids : call_add_admin(user_id)
    \/ \E user_id \in Ids : call_remove_admin(user_id)
    \/ \E user_id \in Ids : call_add_approver(user_id)
    \/ \E user_id \in Ids : call_remove_approver(user_id)
    \/ cancel_admin_action_handler(ADMIN_ID)
    \/ add_approver_start(ADMIN_ID)
    \/ \E text \in IdInputs : process_new_approver_id(ADMIN_ID, text)
    \/ \E text \in NameInputs : process_approver_name(ADMIN_ID, text)
    \/ remove_approver_start(ADMIN_ID)
    \/ \E text \in IdInputs : process_approver_delete(ADMIN_ID, text)

SpecConfig == InitOver({0, HELPER_ID}, { {} }, { << >> }) /\ [][NextConfig]_vars

RegistrationGroupSets == { {}, { [group_id |-> -5, google_sheet_id |-> 1] } }

\* Both operators in the registration flow, while the primary administrator
\* can change the access code.
NextRegistration ==
    \/ \E op \in Operators, blocked \in BOOLEAN : handle_start(op, blocked)
    \/ \E op \in Operators, text \in PasswordInputs : handle_password(op, text)
    \/ \E op \in Operators, text \in FullNameInputs : handle_full_name(op, text)
    \/ \E op \in Operators : handle_group_selection(op, -5)
    \/ Idle(ADMIN_ID) /\ start_password_change(ADMIN_ID)
    \/ \E text \in PasswordInputs : process_new_password(ADMIN_ID, text)
    \/ \E text \in PasswordInputs : process_password_confirmation(ADMIN_ID, text, 1)
    \/ password_confirmation_commit(1, TRUE)

SpecRegistration ==
    InitFrom({HELPER_ID}, { {1} }, RegistrationGroupSets, { << >> }) /\ [][NextRegistration]_vars

\* A user record of op is created in the step.
RecordCreated(op) ==
    \/ \E r \in full_names' \ full_names : r.telegram_id = op
    \/ Registered(op)' /\ ~Registered(op)

\* C39: a user record is created only by the group selection step of an
\* operator whose session is at that step; a session comes to the group
\* selection step only from the name step, by an accepted name; it comes to
\* the name step only from the password step, by an input equal to the access
\* code current at that moment; and a wrong password is rejected, leaves the
\* session at the password step and creates no record, at every attempt.
C39_RecordOnlyAfterStepsInOrder ==
    [][\A op \in Operators :
          /\ RecordCreated(op) =>
                /\ fsm_state[op] = "waiting_for_group_selection"
                /\ reply' = Answer(op, "handle_group_selection", "done")
          /\ ( /\ fsm_state'[op] = "waiting_for_group_selection"
               /\ fsm_state[op] # "waiting_for_group_selection" ) =>
                /\ fsm_state[op] = "waiting_for_full_name"
                /\ reply' = Answer(op, "handle_full_name", "prompt")
          /\ ( /\ fsm_state'[op] = "waiting_for_full_name"
               /\ fsm_state[op] # "waiting_for_full_name" ) =>
                /\ fsm_state[op] = "waiting_for_password"
                /\ reply' = Tried(op, "prompt", password)
          /\ ( /\ fsm_state[op] = "waiting_for_password"
               /\ reply'.op = op
               /\ reply'.h = "handle_password"
               /\ reply'.detail # Some(password) ) =>
                /\ reply'.kind = "reject"
                /\ Session(op)' = Session(op)
                /\ dbVars' = dbVars]_vars

\* An operator other than the primary administrator was registered by the
\* group selection step with the stored name, after the access code had been
\* changed.
C39_Witness ==
    /\ reply = Answer(ADMIN_ID + 1, "handle_group_selection", "done")
    /\ [telegram_id |-> ADMIN_ID + 1, full_name |-> <<"A", "l", "i">>] \in full_names
    /\ Registered(ADMIN_ID + 1)
    /\ password = <<"2", "0", "2", "5">>

\* C40 as stated: no two user records of different operators carry the same
\* name.
C40_NamesUnique ==
    \A r1, r2 \in full_names : r1.full_name = r2.full_name => r1.telegram_id = r2.telegram_id
=============================================================================
